---- MODULE Spec2Model ----
(***************************************************************************)
(* A model of the audio mixer's frame loop (AudioMixer::run), of the       *)
(* per-listener mix (prepareMixForListeningNode and                        *)
(* addBufferToMixForListeningNodeWithBuffer) and of the load-shedding      *)
(* throttle, from assignment-client/src/audio/AudioMixer.cpp.              *)
(*                                                                         *)
(* The mixer's float members are IEEE-754 binary32 values.  They are       *)
(* modelled bit-exactly (round to nearest, ties to even, one rounding per  *)
(* operation): a value is <<s, m, e>>, standing for s * m * 2^e, with      *)
(* s in {1,-1} and m = 0 or 2^23 <= m < 2^24; m = -1 stands for infinity.  *)
(* Every intermediate stays below 2^31.  Subnormals are not modelled: no   *)
(* run within the bounds gets near 2^-126.                                 *)
(***************************************************************************)
EXTENDS Integers, Sequences, FiniteSets, TLC

\* ------------------------------------------------------------------------
\* binary32 arithmetic
\* ------------------------------------------------------------------------

TwoTo23 == 2^23

TwoTo24 == 2^24

Pow2(n) == 2^n

F32Zero == <<1, 0, 0>>

F32Inf == <<1, -1, 0>>

F32IsZero(a) == a[2] = 0

F32IsInf(a) == a[2] = -1

\* not a number: no operator of this section takes it, F32IsNaN is asked
\* before the arithmetic
F32NaN == <<1, -2, 0>>

F32IsNaN(a) == a[2] = -2

\* the number of bits of n, 0 <= n < 2^31
BitLen4(n) == IF n < 4 THEN (IF n < 2 THEN n ELSE 2) ELSE (IF n < 8 THEN 3 ELSE 4)

BitLen8(n) == IF n < 16 THEN BitLen4(n) ELSE 4 + BitLen4(n \div 16)

BitLen(n) ==
    IF n < 65536
    THEN (IF n < 256 THEN BitLen8(n) ELSE 8 + BitLen8(n \div 256))
    ELSE (IF n < TwoTo24 THEN 16 + BitLen8(n \div 65536) ELSE 24 + BitLen8(n \div TwoTo24))

\* hi + lo / 2^w in units of 2^e, 2^23 <= hi < 2^24, rounded to nearest, ties
\* to even.  lo < 2^w; the lowest bit of lo may be a sticky bit.
F32Round(s, hi, lo, w, e) ==
    LET half == IF w = 0 THEN 0 ELSE Pow2(w - 1)
        up == w > 0 /\ (lo > half \/ (lo = half /\ hi % 2 = 1))
        m == IF up THEN hi + 1 ELSE hi
    IN IF m = TwoTo24 THEN <<s, TwoTo23, e + 1>> ELSE <<s, m, e>>

\* hi + lo / 2^w in units of 2^e, normalised to a 24-bit significand and
\* rounded
F32Norm(s, hi, lo, w, e) ==
    IF hi = 0 /\ lo = 0 THEN <<s, 0, 0>>
    ELSE LET n == BitLen(hi)
         IN IF n = 24 THEN F32Round(s, hi, lo, w, e)
            ELSE IF n > 24
                THEN LET k == n - 24
                     IN F32Round(s, hi \div Pow2(k), (hi % Pow2(k)) * Pow2(w) + lo,
                                 w + k, e + k)
            ELSE LET k == 24 - n
                 IN IF w >= k
                    THEN F32Round(s, hi * Pow2(k) + (lo \div Pow2(w - k)),
                                  lo % Pow2(w - k), w - k, e - k)
                    ELSE LET v == hi * Pow2(w) + lo
                             j == 24 - BitLen(v)
                         IN <<s, v * Pow2(j), e - w - j>>

\* (float) n, for an int n with |n| < 2^24 (exact)
F32FromInt(n) ==
    IF n < 0 THEN F32Norm(-1, -n, 0, 0, 0) ELSE F32Norm(1, n, 0, 0, 0)

F32Neg(a) == <<-a[1], a[2], a[3]>>

\* |a| < |b|, for finite a and b
F32MagLt(a, b) ==
    IF b[2] = 0 THEN FALSE
    ELSE IF a[2] = 0 THEN TRUE
    ELSE a[3] < b[3] \/ (a[3] = b[3] /\ a[2] < b[2])

\* a < b
F32Lt(a, b) ==
    IF a[2] = 0 /\ b[2] = 0 THEN FALSE
    ELSE IF F32IsInf(a) THEN a[1] = -1 /\ ~(F32IsInf(b) /\ b[1] = -1)
    ELSE IF F32IsInf(b) THEN b[1] = 1
    ELSE IF a[2] = 0 THEN b[1] = 1
    ELSE IF b[2] = 0 THEN a[1] = -1
    ELSE IF a[1] # b[1] THEN a[1] = -1
    ELSE IF a[1] = 1 THEN F32MagLt(a, b) ELSE F32MagLt(b, a)

F32Eq(a, b) == (a[2] = 0 /\ b[2] = 0) \/ a = b

\* a <= b
F32Le(a, b) == F32Lt(a, b) \/ F32Eq(a, b)

\* |a| + |b| with sign s, |a| >= |b| > 0, both finite
F32MagAdd(s, a, b) ==
    LET sh == a[3] - b[3]
    IN IF sh > 26 THEN F32Norm(s, a[2], 1, 3, a[3])
       ELSE F32Norm(s, a[2] + (b[2] \div Pow2(sh)), b[2] % Pow2(sh), sh, a[3])

\* |a| - |b| with sign s, |a| >= |b| > 0, both finite
F32MagSub(s, a, b) ==
    LET sh == a[3] - b[3]
    IN IF sh > 26 THEN F32Norm(s, a[2] - 1, 7, 3, a[3])
       ELSE LET rem == b[2] % Pow2(sh)
                borrow == IF rem > 0 THEN 1 ELSE 0
                lo == IF rem > 0 THEN Pow2(sh) - rem ELSE 0
            IN F32Norm(s, a[2] - (b[2] \div Pow2(sh)) - borrow, lo, sh, a[3])

\* a + b
F32Add(a, b) ==
    IF F32IsInf(a) THEN a
    ELSE IF F32IsInf(b) THEN b
    ELSE IF b[2] = 0 THEN a
    ELSE IF a[2] = 0 THEN b
    ELSE IF a[1] = b[1]
        THEN IF F32MagLt(a, b) THEN F32MagAdd(a[1], b, a) ELSE F32MagAdd(a[1], a, b)
    ELSE IF F32MagLt(a, b) THEN F32MagSub(b[1], b, a)
    ELSE IF F32MagLt(b, a) THEN F32MagSub(a[1], a, b)
    ELSE F32Zero

\* a - b
F32Sub(a, b) == F32Add(a, F32Neg(b))

\* a * b: the 48-bit product of the significands, from 12-bit limbs
F32Mul(a, b) ==
    IF a[2] = 0 \/ b[2] = 0 THEN <<a[1] * b[1], 0, 0>>
    ELSE IF F32IsInf(a) \/ F32IsInf(b) THEN <<a[1] * b[1], -1, 0>>
    ELSE LET ah == a[2] \div 4096
             al == a[2] % 4096
             bh == b[2] \div 4096
             bl == b[2] % 4096
             mid == ah * bl + al * bh
             lowRaw == al * bl + (mid % 4096) * 4096
             lo == lowRaw % TwoTo24
             hi == ah * bh + (mid \div 4096) + (lowRaw \div TwoTo24)
         IN F32Norm(a[1] * b[1], hi, lo, 24, a[3] + b[3] + 24)

\* the quotient bits of rem / d below the binary point, k more to produce
RECURSIVE F32DivBits(_, _, _, _)
F32DivBits(q, rem, d, k) ==
    IF k = 0 THEN <<q, rem>>
    ELSE LET r2 == rem * 2
         IN IF r2 >= d THEN F32DivBits(q * 2 + 1, r2 - d, d, k - 1)
            ELSE F32DivBits(q * 2, r2, d, k - 1)

\* a / b: x / 0 is infinity for x # 0 (the IEEE quotient the build computes)
F32Div(a, b) ==
    IF F32IsInf(a) THEN <<a[1] * b[1], -1, 0>>
    ELSE IF F32IsInf(b) THEN <<a[1] * b[1], 0, 0>>
    ELSE IF b[2] = 0 THEN <<a[1] * b[1], -1, 0>>
    ELSE IF a[2] = 0 THEN <<a[1] * b[1], 0, 0>>
    ELSE LET qr == F32DivBits(a[2] \div b[2], a[2] % b[2], b[2], 25)
             sticky == IF qr[2] > 0 THEN 1 ELSE 0
         IN F32Norm(a[1] * b[1], qr[1] \div 4, (qr[1] % 4) * 2 + sticky, 3,
                    a[3] - b[3] - 23)

\* (int) a: truncation toward zero, for |a| < 2^24
F32ToInt(a) ==
    IF a[2] = 0 THEN 0
    ELSE IF a[3] >= 0 THEN a[1] * a[2] * Pow2(a[3])
    ELSE IF a[3] < -24 THEN 0
    ELSE a[1] * (a[2] \div Pow2(-a[3]))

\* ------------------------------------------------------------------------
\* constants of the program
\* ------------------------------------------------------------------------

\* AudioRingBuffer.h (the frame contract of the specification, section 3)
NETWORK_BUFFER_LENGTH_SAMPLES_STEREO == 480

NETWORK_BUFFER_LENGTH_SAMPLES_PER_CHANNEL == 240

BUFFER_SEND_INTERVAL_USECS == 10000

SAMPLE_PHASE_DELAY_AT_90 == 20

MAX_SAMPLE_VALUE == 32767

MIN_SAMPLE_VALUE == -32768

TRAILING_AVERAGE_FRAMES == 100

USECS_PER_SECOND == 1000000

F32One == F32FromInt(1)

F32Two == F32FromInt(2)

F32Half == F32Div(F32One, F32Two)

\* 0.00001f
LOUDNESS_TO_DISTANCE_RATIO == F32Div(F32One, F32FromInt(100000))

\* 0.10f and 0.20f
STRUGGLE_TRIGGER_SLEEP_PERCENTAGE_THRESHOLD == F32Div(F32One, F32FromInt(10))

BACK_OFF_TRIGGER_SLEEP_PERCENTAGE_THRESHOLD == F32Div(F32One, F32FromInt(5))

\* 0.02f
RATIO_BACK_OFF == F32Div(F32One, F32FromInt(50))

\* 1.0f / TRAILING_AVERAGE_FRAMES and 1.0f - CURRENT_FRAME_RATIO
CURRENT_FRAME_RATIO == F32Div(F32One, F32FromInt(TRAILING_AVERAGE_FRAMES))

PREVIOUS_FRAMES_RATIO == F32Sub(F32One, CURRENT_FRAME_RATIO)

\* ------------------------------------------------------------------------
\* nodes, ring buffers and sample frames
\* ------------------------------------------------------------------------

\* the nodes of the NodeList and the ring buffers their client data can
\* hold: an avatar (microphone) buffer each, and one injector of node A
Nodes == {"A", "B"}

Buffers == {"micA", "injA", "micB"}

Owner(b) == IF b = "micB" THEN "B" ELSE "A"

AvatarBufferOf(n) == IF n = "A" THEN "micA" ELSE "micB"

IsInjector(b) == b = "injA"

\* AudioMixerClientData::getRingBuffers(), in index order
RingBuffersOf(n) == IF n = "A" THEN <<"micA", "injA">> ELSE <<"micB">>

\* the orders in which a foreach over the node hash can visit the nodes
NodeOrders == {<<"A", "B">>, <<"B", "A">>}

\* the contents a frame of a ring buffer can have
Patterns == {"zero", "max", "min", "k1000", "two", "ramp", "fall"}

PatternSample(p, i) ==
    IF p = "max" THEN MAX_SAMPLE_VALUE
    ELSE IF p = "min" THEN MIN_SAMPLE_VALUE
    ELSE IF p = "k1000" THEN 1000
    ELSE IF p = "two" THEN 2
    ELSE IF p = "ramp" THEN ((i * 37) % 2001) - 1000
    ELSE IF p = "fall" THEN 1000 - ((i * 41) % 2001)
    ELSE 0

\* the ring of a buffer holds this many frames
RING_BUFFER_LENGTH_FRAMES == 10

EmptyRing == [slot \in 0..(RING_BUFFER_LENGTH_FRAMES - 1) |-> "zero"]

\* a ring buffer that its node has not created
NoBuffer ==
    [exists |-> FALSE, stereo |-> FALSE, loopback |-> FALSE,
     willBeAdded |-> FALSE, loudness |-> F32Zero, position |-> 0,
     radius |-> 0, attenuationRatio |-> F32One, inZone |-> FALSE,
     slots |-> EmptyRing, nextOutput |-> 0, endOfLastWrite |-> 0,
     framesAvailable |-> 0]

\* samples of one frame of the buffer: a stereo buffer interleaves
FrameSamples(buf) ==
    IF buf.stereo THEN NETWORK_BUFFER_LENGTH_SAMPLES_STEREO
    ELSE NETWORK_BUFFER_LENGTH_SAMPLES_PER_CHANNEL

\* getBuffer()[p], p a sample index into the ring's array
RingSample(buf, p) ==
    PatternSample(buf.slots[p \div FrameSamples(buf)], p % FrameSamples(buf))

\* getNextOutput()[i]
NextOutputSample(buf, i) == PatternSample(buf.slots[buf.nextOutput], i)

\* PositionalAudioRingBuffer::shouldBeAddedToMix, as the pre-frame check
\* of the specification: enough samples for a frame, and the listener zone
\* of a source inside the source zone
ZoneContains(box, x) == box[1] <= x /\ x <= box[2]

CheckBuffer(buf, zones) ==
    [buf EXCEPT !.willBeAdded = buf.framesAvailable >= 1,
                !.inZone = IF zones = <<>> THEN FALSE
                           ELSE ZoneContains(zones.source, buf.position)]

\* AudioMixerClientData::pushBuffersAfterFrameSend for one buffer: the read
\* position moves one frame on when the frame was offered to the mix
AdvanceBuffer(buf) ==
    IF buf.willBeAdded
    THEN [buf EXCEPT !.nextOutput = (buf.nextOutput + 1) % RING_BUFFER_LENGTH_FRAMES,
                     !.framesAvailable = buf.framesAvailable - 1,
                     !.willBeAdded = FALSE]
    ELSE buf

\* AudioRingBuffer::parseData: one frame written behind the last one
WriteFrame(buf, pattern) ==
    [buf EXCEPT !.slots = [buf.slots EXCEPT ![buf.endOfLastWrite] = pattern],
                !.endOfLastWrite = (buf.endOfLastWrite + 1) % RING_BUFFER_LENGTH_FRAMES,
                !.framesAvailable = buf.framesAvailable + 1]

\* ------------------------------------------------------------------------
\* AudioMixer::addBufferToMixForListeningNodeWithBuffer, lines 89-355
\* ------------------------------------------------------------------------

\* SharedUtil.h: 0.000001f
EPSILON == F32Div(F32One, F32FromInt(1000000))

\* line 100-106.  Every buffer of the model lies on the x axis (y = z = 0)
\* with the identity orientation, so a position is its x coordinate.
DistanceBetween(relativePosition) ==
    LET length == F32FromInt(IF relativePosition < 0 THEN -relativePosition
                             ELSE relativePosition)
    IN IF F32Lt(length, EPSILON) THEN EPSILON ELSE length

\* line 108 with an exclusive comparison
StrictlyBelowAudibility(loudness, distanceBetween, threshold) ==
    F32Lt(F32Div(loudness, distanceBetween), threshold)

\* line 108
BelowAudibility(loudness, distanceBetween, threshold) ==
    F32Le(F32Div(loudness, distanceBetween), threshold)

\* line 150-154: the listener is at 90 degrees of a source that faces -z,
\* so angleOfDelivery / PI_OVER_TWO is 1
MAX_OFF_AXIS_ATTENUATION == F32Div(F32One, F32FromInt(5))

OFF_AXIS_ATTENUATION_FORMULA_STEP ==
    F32Div(F32Sub(F32One, MAX_OFF_AXIS_ATTENUATION), F32Two)

OffAxisCoefficient(relativePosition) ==
    F32Add(MAX_OFF_AXIS_ATTENUATION, F32Mul(OFF_AXIS_ATTENUATION_FORMULA_STEP, F32One))

\* line 162-171: min(1, powf(0.3f, 1 + 0.5f * logf(d2) / logf(2.5f) - 1)),
\* tabulated in single precision for the squared distances that the
\* positions of the model produce
DistanceCoefficient(distanceSquareToSource) ==
    IF F32Le(distanceSquareToSource, F32One) THEN F32One
    ELSE CASE F32Eq(distanceSquareToSource, F32FromInt(3)) -> <<1, 16303838, -25>>
           [] F32Eq(distanceSquareToSource, F32FromInt(4)) -> <<1, 13496072, -25>>
           [] F32Eq(distanceSquareToSource, F32FromInt(100000000)) -> <<1, 12200426, -41>>
           [] F32Eq(distanceSquareToSource, F32FromInt(100020001)) -> <<1, 12198829, -41>>

\* a bearing that is positive for a source on the listener's +x side
BearingPositiveOnRight(relativePosition) == relativePosition > 0

\* line 180-188: a source on the listener's +x side has bearing -pi/2, one
\* on the -x side +pi/2; |sinf| of either is 1
BearingIsPositive(relativePosition) == relativePosition < 0

SinRatio(relativePosition) == F32One

\* line 91-94: the values of the locals that the spatializer starts from
UnchangedParams ==
    [bail |-> FALSE, counted |-> FALSE, shouldAttenuate |-> FALSE,
     attenuationCoefficient |-> F32One, numSamplesDelay |-> 0,
     weakChannelAmplitudeRatio |-> F32One, bearingPositive |-> FALSE]

\* line 143-190 for a point source at the listener's position:
\* glm::normalize of the zero vector is 0 * (1 / sqrtf(0)), not a number,
\* and so are the angle of delivery, the off-axis coefficient, the
\* attenuation coefficient (the distance coefficient is min(1, +inf) = 1),
\* the bearing, sinRatio and the weak channel's ratio. The bearing is not
\* > 0. The conversion of SAMPLE_PHASE_DELAY_AT_90 * sinRatio to int is
\* undefined; it gives 0 or INT_MIN, neither is > 0 and twice either is 0
\* in 32 bits, which is what numSamplesDelay stands for here.
NotANumberParams ==
    [bail |-> FALSE, counted |-> TRUE, shouldAttenuate |-> TRUE,
     attenuationCoefficient |-> F32NaN, numSamplesDelay |-> 0,
     weakChannelAmplitudeRatio |-> F32NaN, bearingPositive |-> FALSE]

\* the source attenuated with the off-axis coefficient for every source,
\* spherical or not
AttenuatedOffAxisParams(relativePosition, radius, ratio, distanceSquare, radiusSquare, sinRatio) ==
    IF ~(F32IsZero(radius) \/ F32Lt(radiusSquare, distanceSquare))
    THEN [UnchangedParams EXCEPT !.counted = TRUE, !.shouldAttenuate = TRUE,
                                 !.attenuationCoefficient = ratio]
    ELSE IF relativePosition = 0 THEN NotANumberParams
    ELSE [bail |-> FALSE, counted |-> TRUE, shouldAttenuate |-> TRUE,
          attenuationCoefficient |->
              F32Mul(F32Mul(ratio, OffAxisCoefficient(relativePosition)),
                     DistanceCoefficient(IF F32Lt(F32Zero, radius)
                                         THEN F32Sub(distanceSquare, radiusSquare)
                                         ELSE distanceSquare)),
          numSamplesDelay |-> F32ToInt(F32Mul(F32FromInt(SAMPLE_PHASE_DELAY_AT_90), sinRatio)),
          weakChannelAmplitudeRatio |-> F32Sub(F32One, F32Mul(F32Half, sinRatio)),
          bearingPositive |-> BearingIsPositive(relativePosition)]

\* line 120-192: the source is attenuated; ratio is the coefficient after
\* line 126-130
AttenuatedParams(relativePosition, radius, ratio, distanceSquare, radiusSquare, sinRatio) ==
    IF ~(F32IsZero(radius) \/ F32Lt(radiusSquare, distanceSquare))
    THEN [UnchangedParams EXCEPT !.counted = TRUE, !.shouldAttenuate = TRUE,
                                 !.attenuationCoefficient = ratio]
    ELSE IF relativePosition = 0 THEN NotANumberParams
    ELSE [bail |-> FALSE, counted |-> TRUE, shouldAttenuate |-> TRUE,
          attenuationCoefficient |->
              IF F32Lt(F32Zero, radius)
              THEN F32Mul(ratio, DistanceCoefficient(F32Sub(distanceSquare, radiusSquare)))
              ELSE F32Mul(F32Mul(ratio, OffAxisCoefficient(relativePosition)),
                          DistanceCoefficient(distanceSquare)),
          numSamplesDelay |-> F32ToInt(F32Mul(F32FromInt(SAMPLE_PHASE_DELAY_AT_90), sinRatio)),
          weakChannelAmplitudeRatio |-> F32Sub(F32One, F32Mul(F32Half, sinRatio)),
          bearingPositive |-> BearingIsPositive(relativePosition)]

\* the zone looked at before the audibility of the source
ZoneBeforeGateParams(src, injector, lst, relativePosition, threshold, zones) ==
    IF src.inZone /\ ZoneContains(zones.listener, lst.position)
    THEN [UnchangedParams EXCEPT !.counted = TRUE]
    ELSE IF BelowAudibility(src.loudness, DistanceBetween(relativePosition), threshold)
        THEN [UnchangedParams EXCEPT !.bail = TRUE]
    ELSE AttenuatedParams(relativePosition,
                          IF injector THEN F32FromInt(src.radius) ELSE F32Zero,
                          IF injector THEN F32Mul(F32One, src.attenuationRatio) ELSE F32One,
                          F32FromInt(relativePosition * relativePosition),
                          IF injector THEN F32FromInt(src.radius * src.radius) ELSE F32Zero,
                          SinRatio(relativePosition))

\* line 98-119: the source is another buffer than the listener's
OtherBufferParams(src, injector, lst, relativePosition, threshold, zones) ==
    IF BelowAudibility(src.loudness, DistanceBetween(relativePosition), threshold)
    THEN [UnchangedParams EXCEPT !.bail = TRUE]
    ELSE IF src.inZone /\ ZoneContains(zones.listener, lst.position)
        THEN [UnchangedParams EXCEPT !.counted = TRUE]
    ELSE AttenuatedParams(relativePosition,
                          IF injector THEN F32FromInt(src.radius) ELSE F32Zero,
                          IF injector THEN F32Mul(F32One, src.attenuationRatio) ELSE F32One,
                          F32FromInt(relativePosition * relativePosition),
                          IF injector THEN F32FromInt(src.radius * src.radius) ELSE F32Zero,
                          SinRatio(relativePosition))

\* line 91-193: what the spatializer hands to the mixing loops
Spatialize(src, injector, lst, same, threshold, zones) ==
    IF same THEN UnchangedParams
    ELSE OtherBufferParams(src, injector, lst, src.position - lst.position,
                           threshold, zones)

\* an addition of two int16_t values that wraps around in 16 bits
AddsWrapping16(a, b) == ((a + b + 32768) % 65536) - 32768

\* _mm_adds_pi16 on one lane: the signed saturating 16-bit sum
AddsPi16(a, b) ==
    IF a + b > MAX_SAMPLE_VALUE THEN MAX_SAMPLE_VALUE
    ELSE IF a + b < MIN_SAMPLE_VALUE THEN MIN_SAMPLE_VALUE
    ELSE a + b

\* glm::clamp(v, MIN_SAMPLE_VALUE, MAX_SAMPLE_VALUE) of an int sum
ClampSample(v) ==
    IF v < MIN_SAMPLE_VALUE THEN MIN_SAMPLE_VALUE
    ELSE IF v > MAX_SAMPLE_VALUE THEN MAX_SAMPLE_VALUE
    ELSE v

\* an int16_t sample times a float, converted back to an integer
ScaleSample(sample, coefficient) ==
    F32ToInt(F32Mul(F32FromInt(sample), coefficient))

\* ScaleSample of every sample of a frame, computed once for each distinct
\* sample value
ScaledFrame(frame, coefficient) ==
    LET scaled == [v \in {frame[i] : i \in DOMAIN frame} |-> ScaleSample(v, coefficient)]
    IN [i \in DOMAIN frame |-> scaled[frame[i]]]

\* _clientSamples holds a stereo frame and room behind it for the delayed
\* channel of the last samples (AudioMixer.h)
CLIENT_SAMPLES_LENGTH ==
    NETWORK_BUFFER_LENGTH_SAMPLES_STEREO + (SAMPLE_PHASE_DELAY_AT_90 * 2)

\* line 213-238: the pass of the loop at s, four output samples
MonoPass(samples, s, correct, delayed, numSamplesDelay, delayedChannelOffset) ==
    LET goodChannelOffset == IF delayedChannelOffset = 0 THEN 1 ELSE 0
        good == s + goodChannelOffset
        delayedChannelIndex == s + (numSamplesDelay * 2) + delayedChannelOffset
    IN [samples EXCEPT
           ![good] = AddsPi16(samples[good], correct[s \div 2]),
           ![good + 2] = AddsPi16(samples[good + 2], correct[(s \div 2) + 1]),
           ![delayedChannelIndex] =
               AddsPi16(samples[delayedChannelIndex], delayed[s \div 2]),
           ![delayedChannelIndex + 2] =
               AddsPi16(samples[delayedChannelIndex + 2], delayed[(s \div 2) + 1])]

\* the passes s, s + 4, ... below to, in this order
RECURSIVE MonoPasses(_, _, _, _, _, _, _)
MonoPasses(samples, s, to, correct, delayed, numSamplesDelay, delayedChannelOffset) ==
    IF s >= to THEN samples
    ELSE MonoPasses(MonoPass(samples, s, correct, delayed, numSamplesDelay,
                             delayedChannelOffset),
                    s + 4, to, correct, delayed, numSamplesDelay, delayedChannelOffset)

\* line 212-239: the loop, from its pass at s on, twelve passes at a time
\* (the test of DOMAIN samples has TLC evaluate the block that the earlier
\* passes produced before it goes on)
RECURSIVE MonoLoop(_, _, _, _, _, _)
MonoLoop(samples, s, correct, delayed, numSamplesDelay, delayedChannelOffset) ==
    IF s >= NETWORK_BUFFER_LENGTH_SAMPLES_STEREO \/ DOMAIN samples = {} THEN samples
    ELSE MonoLoop(MonoPasses(samples, s, s + 48, correct, delayed, numSamplesDelay,
                             delayedChannelOffset),
                  s + 48, correct, delayed, numSamplesDelay, delayedChannelOffset)

\* nextOutputStart - numSamplesDelay as it is, without the test of line 254
DelayNextOutputStartAsIs(buf, numSamplesDelay) ==
    (buf.nextOutput * FrameSamples(buf)) - numSamplesDelay

\* line 253-256: the index in the ring's array of the first sample before
\* the next output
DelayNextOutputStart(buf, numSamplesDelay) ==
    LET start == (buf.nextOutput * FrameSamples(buf)) - numSamplesDelay
    IN IF start < 0
       THEN (RING_BUFFER_LENGTH_FRAMES * FrameSamples(buf)) - numSamplesDelay
       ELSE start

\* line 260-326: n (at most four) samples from before the next output go to
\* the delayed channel at parentIndex, parentIndex + 2, ...
RECURSIVE PreRollLanes(_, _, _, _, _, _)
PreRollLanes(samples, preRoll, i, n, lane, delayedChannelOffset) ==
    IF lane >= n THEN samples
    ELSE LET index == (i * 2) + (lane * 2) + delayedChannelOffset
         IN PreRollLanes([samples EXCEPT ![index] = AddsPi16(samples[index], preRoll[i + lane])],
                         preRoll, i, n, lane + 1, delayedChannelOffset)

\* the batches of four alone, without the cases for what remains
RECURSIVE PreRollOfBatches(_, _, _, _, _)
PreRollOfBatches(samples, preRoll, i, numSamplesDelay, delayedChannelOffset) ==
    IF i + 3 < numSamplesDelay
    THEN PreRollOfBatches(PreRollLanes(samples, preRoll, i, 4, 0, delayedChannelOffset),
                          preRoll, i + 4, numSamplesDelay, delayedChannelOffset)
    ELSE samples

RECURSIVE PreRoll(_, _, _, _, _)
PreRoll(samples, preRoll, i, numSamplesDelay, delayedChannelOffset) ==
    IF i + 3 < numSamplesDelay
    THEN PreRoll(PreRollLanes(samples, preRoll, i, 4, 0, delayedChannelOffset),
                 preRoll, i + 4, numSamplesDelay, delayedChannelOffset)
    ELSE IF i + 2 < numSamplesDelay
        THEN PreRollLanes(samples, preRoll, i, 3, 0, delayedChannelOffset)
    ELSE IF i + 1 < numSamplesDelay
        THEN PreRollLanes(samples, preRoll, i, 2, 0, delayedChannelOffset)
    ELSE IF i < numSamplesDelay
        THEN PreRollLanes(samples, preRoll, i, 1, 0, delayedChannelOffset)
    ELSE samples

\* line 249-327: the samples before the next output, for the start of the
\* delayed channel
WithPreRoll(samples, buf, numSamplesDelay, delayedChannelOffset, ratio) ==
    IF numSamplesDelay > 0
    THEN PreRoll(samples,
                 ScaledFrame([i \in 0..(numSamplesDelay - 1) |->
                                 RingSample(buf, DelayNextOutputStart(buf, numSamplesDelay) + i)],
                             ratio),
                 0, numSamplesDelay, delayedChannelOffset)
    ELSE samples

\* line 215-221: the samples of the frame for the good channel, and those
\* for the delayed one
CorrectSamples(buf, attenuationCoefficient) ==
    ScaledFrame([i \in 0..(NETWORK_BUFFER_LENGTH_SAMPLES_PER_CHANNEL - 1) |->
                    NextOutputSample(buf, i)],
                attenuationCoefficient)

MixCorrect(samples, buf, correct, weak, numSamplesDelay, delayedChannelOffset, ratio) ==
    WithPreRoll(MonoLoop(samples, 0, correct, ScaledFrame(correct, weak),
                         numSamplesDelay, delayedChannelOffset),
                buf, numSamplesDelay, delayedChannelOffset, ratio)

\* line 197-327: a mono buffer, attenuated and spatialized
MixMono(samples, buf, params) ==
    MixCorrect(samples, buf, CorrectSamples(buf, params.attenuationCoefficient),
               params.weakChannelAmplitudeRatio, params.numSamplesDelay,
               IF params.bearingPositive THEN 1 ELSE 0,
               F32Mul(params.attenuationCoefficient, params.weakChannelAmplitudeRatio))

\* line 330-353: the sum of a block and the scaled frame of a buffer
AddScaled(samples, scaled, stereoDivider) ==
    [s \in DOMAIN samples |->
        IF s < NETWORK_BUFFER_LENGTH_SAMPLES_STEREO
        THEN ClampSample(samples[s] + scaled[s \div stereoDivider])
        ELSE samples[s]]

\* the loop of line 328-354 with every sample at full amplitude
MixAtFullAmplitude(samples, buf, params) ==
    AddScaled(samples,
              ScaledFrame([i \in 0..(FrameSamples(buf) - 1) |-> NextOutputSample(buf, i)],
                          F32One),
              IF buf.stereo THEN 1 ELSE 2)

\* line 328-354: a stereo buffer or an unattenuated one
MixUnspatialized(samples, buf, params) ==
    AddScaled(samples,
              ScaledFrame([i \in 0..(FrameSamples(buf) - 1) |-> NextOutputSample(buf, i)],
                          IF params.shouldAttenuate THEN params.attenuationCoefficient
                          ELSE F32One),
              IF buf.stereo THEN 1 ELSE 2)

\* what the conversion of a float that is not a number to an integer type
\* gives, undefined in C++: 0, or the integer indefinite value of x86, the
\* least value of the type
NaNConversions == {"zero", "indefinite"}

\* the int sum of an int16_t sample and INT_MIN in 32 bits two's
\* complement, in which the sum with a negative sample comes round
PlusIntMin(sample) ==
    IF sample >= 0 THEN (sample - 2147483647) - 1
    ELSE (2147483647 + sample) + 1

\* line 197-354 when attenuationCoefficient is not a number: every sample
\* times the coefficient is converted to int16_t in the mono loop, where
\* the delayed channel is not delayed, and to int in the other, where the
\* int sum is clamped
MixNotANumber(samples, buf, conversion) ==
    [s \in DOMAIN samples |->
        IF s >= NETWORK_BUFFER_LENGTH_SAMPLES_STEREO THEN samples[s]
        ELSE IF conversion = "zero" THEN samples[s]
        ELSE IF buf.stereo THEN ClampSample(PlusIntMin(samples[s]))
        ELSE AddsPi16(samples[s], MIN_SAMPLE_VALUE)]

\* line 195-354: the loops, with what the spatializer found
MixWithParams(samples, buf, params) ==
    [samples |-> IF params.bail THEN samples
                 ELSE IF ~buf.stereo /\ params.shouldAttenuate
                     THEN MixMono(samples, buf, params)
                 ELSE MixUnspatialized(samples, buf, params),
     counted |-> params.counted]

\* line 89-355: the block, and whether the mix was counted in _sumMixes,
\* where the attenuation coefficient is a number
AddBufferToMix(samples, buf, injector, lst, same, threshold, zones) ==
    MixWithParams(samples, buf, Spatialize(buf, injector, lst, same, threshold, zones))

\* line 373-376 without the test on the owning node
ShouldAddOwnBuffer(otherNode, node, buf) ==
    /\ buf.willBeAdded
    /\ F32Lt(F32Zero, buf.loudness)

\* line 373-376 without the tests on willBeAddedToMix and the loudness
ShouldAddUnready(otherNode, node, buf) ==
    otherNode # node \/ buf.loopback

\* line 373-376
ShouldAddToMix(otherNode, node, buf) ==
    /\ (otherNode # node \/ buf.loopback)
    /\ buf.willBeAdded
    /\ F32Lt(F32Zero, buf.loudness)

\* prepareMixForListeningNode without the memset of line 361
KeptClientSamples(samples) == samples

\* line 361: memset of the first NETWORK_BUFFER_LENGTH_BYTES_STEREO bytes
ZeroedClientSamples(samples) ==
    [s \in DOMAIN samples |->
        IF s < NETWORK_BUFFER_LENGTH_SAMPLES_STEREO THEN 0 ELSE samples[s]]

\* ------------------------------------------------------------------------
\* bounds of the model
\* ------------------------------------------------------------------------

\* frames the loop runs in Spec (with clients) and in SpecSched (without)
MaxFrames == 3

MaxSchedFrames == 2900

\* SpecLong runs from frame LongFirstFrame to frame MaxLongFrames, with the
\* timer read from the deadline of frame LongEpochFrame on
LongEpochFrame == 214740

LongFirstFrame == 214743

MaxLongFrames == 214755

\* SpecThrottle runs to frame MaxThrottleFrames and looks for the next
\* raise in the RaiseRoomFrames frames after a state; a ratio is raised at
\* most MaxRaises times in it, and lowered MaxLowerings times from 0.5 to 0
MaxThrottleFrames == 3100

RaiseRoomFrames == 250

MaxRaises == 25

MaxLowerings == 25

\* datagrams the clients send over a run of Spec
MaxDatagrams == 3

\* SpecSched: the machine's load changes at most this often, at a frame
\* number that is a multiple of LoadGrain
MaxLoadChanges == 2

LoadGrain == 250

\* microseconds one frame's work takes on a lightly and on a heavily
\* loaded machine (the second exceeds the frame interval)
LightCostUsecs == 2000

HeavyCostUsecs == 12000

\* SpecSeq: the frames of a run long enough for a 16-bit sequence number to
\* come round; the run is followed over its first frames, up to
\* SeqEarlyFrames, and from frame SeqLateFrame on
MaxSeqFrames == 65540
SeqEarlyFrames == 6
SeqLateFrame == 65530

\* SpecMix: the frame number of the throttled scheduler state, and the
\* radii the injector can have
ThrottledFrame == 2554

InjectorRadii == {0, 1}

\* ------------------------------------------------------------------------
\* state
\* ------------------------------------------------------------------------

VARIABLES
    pc,                          \* where run() is: "start", "top", "mix", "events",
                                 \* "done", or "crashed"
    isFinished,                  \* _isFinished
    nextFrame,                   \* int nextFrame
    elapsedUsecs,                \* timer.nsecsElapsed() / 1000 at this point
    usecToSleep,                 \* int usecToSleep
    framesSinceCutoffEvent,      \* int framesSinceCutoffEvent
    trailingSleepRatio,          \* float _trailingSleepRatio
    performanceThrottlingRatio,  \* float _performanceThrottlingRatio
    minAudibilityThreshold,      \* float _minAudibilityThreshold
    clientMixBufferAllocated,    \* new char[...] not yet delete[]d
    frameCostUsecs,              \* environment: what a frame's work costs now
    loadChanges,                 \* environment: load changes so far
    lastCutoffFrame,             \* history: frame of the last ratio change, -1 if none
    lastBranch,                  \* history: what the throttle did in the last frame begun
    deadline,                    \* history: the product line 655 formed last, <<high, low>>
    nodeOrder,                   \* the node hash, in the order foreach visits it
    nodes,                       \* per node: type, linked data, active socket, sequence
                                 \* number, whether datagrams sent to it arrive
    bufs,                        \* per ring buffer: its record (NoBuffer if not created)
    zones,                       \* _sourceUnattenuatedZone, _listenerUnattenuatedZone or <<>>
    payload,                     \* _payload: its zone option and jitter buffer option
    useDynamicJitterBuffers,     \* static bool _useDynamicJitterBuffers
    clientSamples,               \* int16_t _clientSamples[]
    todoNodes,                   \* listener loop, line 604: nodes still to visit
    listener,                    \* the node prepareMixForListeningNode runs for, or "none"
    todoBuffers,                 \* source loop, line 364-370: buffers still to visit
    lastPacket,                  \* the last mixed-audio datagram written, or <<>>
    sendAudioStreamStats,        \* bool sendAudioStreamStats of this frame
    lastSendAudioStreamStatsTime, \* _lastSendAudioStreamStatsTime
    numStatFrames,               \* _numStatFrames
    sumListeners,                \* _sumListeners
    sumMixes,                    \* _sumMixes
    datagramsRead,               \* environment: datagrams read so far
    checks,                      \* history: pre-frame checks of each buffer this frame
    advances,                    \* history: advances of each buffer this frame
    frameStart,                  \* history: next output of each buffer offered this frame
    mixedListeners,              \* history: listeners sent a mix this frame
    packets,                     \* history: per node, mixes sent this frame and in all
    considered,                  \* history: the buffer the source loop visited last
    spatial                      \* history: what the spatializer found for it, or <<>>

schedVars == <<pc, isFinished, nextFrame, elapsedUsecs, usecToSleep,
               framesSinceCutoffEvent, trailingSleepRatio,
               performanceThrottlingRatio, minAudibilityThreshold,
               clientMixBufferAllocated, frameCostUsecs, loadChanges,
               lastCutoffFrame, lastBranch, deadline>>

configVars == <<zones, payload, useDynamicJitterBuffers>>

clientVars == <<nodeOrder, nodes, bufs, configVars, datagramsRead>>

mixVars == <<clientSamples, todoNodes, listener, todoBuffers, lastPacket,
             considered, spatial, mixedListeners, packets>>

statVars == <<sendAudioStreamStats, lastSendAudioStreamStatsTime, numStatFrames,
              sumListeners, sumMixes>>

frameVars == <<checks, advances, frameStart>>

vars == <<schedVars, clientVars, mixVars, statVars, frameVars>>

\* ------------------------------------------------------------------------
\* the frame scheduler: AudioMixer::run, lines 527-591 and 647-662
\* ------------------------------------------------------------------------

\* usecToSleep as it is, without the test of line 549-551
UnclampedUsecToSleep(usec) == usec

\* line 549-554: the trailing average of the slept share of a frame
ClampedUsecToSleep(usec) == IF usec < 0 THEN 0 ELSE usec

TrailingSleepRatio(old, usec) ==
    F32Add(F32Mul(PREVIOUS_FRAMES_RATIO, old),
           F32Div(F32Mul(F32FromInt(ClampedUsecToSleep(usec)), CURRENT_FRAME_RATIO),
                  F32FromInt(BUFFER_SEND_INTERVAL_USECS)))

\* line 559 without the wait of TRAILING_AVERAGE_FRAMES frames
ThrottleEvaluatedEveryFrame(frames) == frames >= 0

\* line 559
ThrottleEvaluated(frames) == frames >= TRAILING_AVERAGE_FRAMES

\* line 560 with the back-off threshold in place of the struggle threshold
IsStrugglingBelowBackOff(tsr) == F32Le(tsr, BACK_OFF_TRIGGER_SLEEP_PERCENTAGE_THRESHOLD)

\* line 560 and 567
IsStruggling(tsr) == F32Le(tsr, STRUGGLE_TRIGGER_SLEEP_PERCENTAGE_THRESHOLD)

HasRecovered(tsr, ratio) ==
    F32Le(BACK_OFF_TRIGGER_SLEEP_PERCENTAGE_THRESHOLD, tsr) /\ ~F32Eq(ratio, F32Zero)

\* line 562 with a quarter of the remaining way instead of half
RaisedRatioByQuarter(ratio) ==
    F32Add(ratio, F32Mul(F32Div(F32Half, F32Two), F32Sub(F32One, ratio)))

\* line 562
RaisedRatio(ratio) == F32Add(ratio, F32Mul(F32Half, F32Sub(F32One, ratio)))

\* line 569-573
LoweredRatio(ratio) ==
    LET lowered == F32Sub(ratio, RATIO_BACK_OFF)
    IN IF F32Lt(lowered, F32Zero) THEN F32Zero ELSE lowered

\* line 582
AudibilityThreshold(ratio) ==
    F32Div(LOUDNESS_TO_DISTANCE_RATIO, F32Mul(F32Two, F32Sub(F32One, ratio)))

\* line 556-591: "raise", "lower" or "none"
ThrottleBranch(frames, tsr, ratio) ==
    IF ~ThrottleEvaluated(frames) THEN "none"
    ELSE IF IsStruggling(tsr) THEN "raise"
    ELSE IF HasRecovered(tsr, ratio) THEN "lower"
    ELSE "none"

ThrottledRatio(branch, ratio) ==
    IF branch = "raise" THEN RaisedRatio(ratio)
    ELSE IF branch = "lower" THEN LoweredRatio(ratio)
    ELSE ratio

\* line 580-591
FramesSinceCutoffEventAfter(branch, frames) ==
    IF branch = "none" THEN frames + 1 ELSE 0

\* the scheduler's part of one pass of lines 532-602
ScheduleFrame ==
    LET tsr == TrailingSleepRatio(trailingSleepRatio, usecToSleep)
        branch == ThrottleBranch(framesSinceCutoffEvent, tsr, performanceThrottlingRatio)
        ratio == ThrottledRatio(branch, performanceThrottlingRatio)
    IN /\ usecToSleep' = ClampedUsecToSleep(usecToSleep)
       /\ trailingSleepRatio' = tsr
       /\ performanceThrottlingRatio' = ratio
       /\ minAudibilityThreshold' =
              IF branch = "none" THEN minAudibilityThreshold
              ELSE AudibilityThreshold(ratio)
       /\ framesSinceCutoffEvent' =
              FramesSinceCutoffEventAfter(branch, framesSinceCutoffEvent)
       /\ lastCutoffFrame' = IF branch = "none" THEN lastCutoffFrame ELSE nextFrame
       /\ lastBranch' = branch

\* line 655-659: the sleep to the next frame's deadline
\* elapsedUsecs holds the reading of the timer less its reading at the
\* deadline of this frame: 0 in a run that begins, LongEpochFrame in a run
\* that is beyond it
TimerEpochFrame(frame) == IF frame > LongEpochFrame THEN LongEpochFrame ELSE 0

\* the sleep after the frame before `frame`, were the product exact
UsecToSleepAt(frame, elapsed) ==
    ((frame - TimerEpochFrame(frame)) * BUFFER_SEND_INTERVAL_USECS) - elapsed

\* a 64-bit integer is <<high, low>>, high * 65536 + low with low in 0..65535
Wide(high, low) == <<high + (low \div 65536), low % 65536>>

\* frame * BUFFER_SEND_INTERVAL_USECS, the product of the integers
ExactProduct(frame) ==
    Wide((frame \div 65536) * BUFFER_SEND_INTERVAL_USECS,
         (frame % 65536) * BUFFER_SEND_INTERVAL_USECS)

\* the low 32 bits of the product as an int in two's complement
WrappedProduct(frame) ==
    <<((ExactProduct(frame)[1] + 32768) % 65536) - 32768, ExactProduct(frame)[2]>>

\* line 655: ++nextFrame * BUFFER_SEND_INTERVAL_USECS is a product of two
\* int; beyond INT_MAX it is undefined, and what is subtracted from is the
\* product in the 64 bits of the subtraction or the product wrapped to 32
DeadlineProducts(frame) ==
    IF ExactProduct(frame)[1] < 32768 THEN {ExactProduct(frame)}
    ELSE {ExactProduct(frame), WrappedProduct(frame)}

\* timer.nsecsElapsed() / 1000 in 64 bits
TimerReading(frame, elapsed) ==
    Wide(ExactProduct(TimerEpochFrame(frame))[1],
         ExactProduct(TimerEpochFrame(frame))[2] + elapsed)

\* line 655: the product less the reading of the timer, in 64 bits, kept
\* to the 32 bits of usecToSleep
UsecToSleepFrom(product, frame, elapsed) ==
    LET difference == Wide(product[1] - TimerReading(frame, elapsed)[1],
                           product[2] - TimerReading(frame, elapsed)[2])
    IN ((((difference[1] + 32768) % 65536) - 32768) * 65536) + difference[2]

ElapsedAfterSleep(usec, elapsed) == IF usec > 0 THEN elapsed + usec ELSE elapsed

\* ------------------------------------------------------------------------
\* the payload: AudioMixer::run, lines 484-518
\* ------------------------------------------------------------------------

\* an entry of the zone option's list that toFloat() converts, and one that
\* it does not convert ("1.2.3", "-", an empty entry)
ZoneEntry(v) == [ok |-> TRUE, value |-> v]

UnparsedEntry == [ok |-> FALSE, value |-> 0]

\* QString::toFloat: 0 when the conversion fails
ToFloat(entry) == IF entry.ok THEN entry.value ELSE 0

\* the entries lines 492-496 read: zoneStringList[0] to zoneStringList[11]
ZoneFloats == 12

\* the regular expression of line 485 matches: the option is followed by
\* at least one character of [0-9.,-], and split(',') of a string that is
\* not empty has at least one entry
RegexMatches(p) == p.option /\ p.zoneStringList # <<>>

\* the x entries (corner and dimension of the source zone, corner and
\* dimension of the listener zone) that lines 492-496 index beyond the end
\* of the list
MissingEntries(zoneStringList) == {i \in {1, 4, 7, 10} : i > Len(zoneStringList)}

\* what can be read beyond the end of the list
StrayFloats == {0, 10000}

\* zoneStringList[i - 1].toFloat()
EntryAt(zoneStringList, i, beyond) ==
    IF i <= Len(zoneStringList) THEN ToFloat(zoneStringList[i]) ELSE beyond[i]

\* lines 492-499: the two boxes along x, from corner to corner + dimension
ZonesOf(zoneStringList, beyond) ==
    [source |-> <<EntryAt(zoneStringList, 1, beyond),
                  EntryAt(zoneStringList, 1, beyond) + EntryAt(zoneStringList, 4, beyond)>>,
     listener |-> <<EntryAt(zoneStringList, 7, beyond),
                    EntryAt(zoneStringList, 7, beyond) + EntryAt(zoneStringList, 10, beyond)>>]

\* twelve floats: a source zone from x = 1 to x = 10000, a listener zone at
\* x = 0 only
WellFormedZoneList ==
    <<ZoneEntry(1), ZoneEntry(0), ZoneEntry(0), ZoneEntry(9999), ZoneEntry(0), ZoneEntry(0),
      ZoneEntry(0), ZoneEntry(0), ZoneEntry(0), ZoneEntry(0), ZoneEntry(0), ZoneEntry(0)>>

\* lists of the zone option: none captured, twelve floats, six floats,
\* thirteen floats, twelve entries of which the source corner's x does not
\* convert
ZoneStringLists ==
    {<<>>, WellFormedZoneList, SubSeq(WellFormedZoneList, 1, 6),
     WellFormedZoneList \o <<ZoneEntry(5)>>,
     [WellFormedZoneList EXCEPT ![1] = UnparsedEntry]}

\* a payload without options, and one with a zone option of twelve floats
PlainPayload == [option |-> FALSE, zoneStringList |-> <<>>, dynamicJitterBuffer |-> FALSE]

ZonedPayload ==
    [option |-> TRUE, zoneStringList |-> WellFormedZoneList, dynamicJitterBuffer |-> FALSE]

\* the payloads a mixer is started with
Payloads ==
    {p \in [option : BOOLEAN, zoneStringList : ZoneStringLists,
            dynamicJitterBuffer : BOOLEAN] :
        /\ ~p.option => p.zoneStringList = <<>>
        /\ p.dynamicJitterBuffer => p.zoneStringList \in {<<>>, WellFormedZoneList}}

\* ------------------------------------------------------------------------
\* initial states
\* ------------------------------------------------------------------------

\* AudioMixer::AudioMixer and lines 520-530 of run()
SchedInit ==
    /\ pc = "top"
    /\ isFinished = FALSE
    /\ nextFrame = 0
    /\ elapsedUsecs = 0
    /\ usecToSleep = BUFFER_SEND_INTERVAL_USECS
    /\ framesSinceCutoffEvent = TRAILING_AVERAGE_FRAMES
    /\ trailingSleepRatio = F32One
    /\ performanceThrottlingRatio = F32Zero
    /\ minAudibilityThreshold = F32Div(LOUDNESS_TO_DISTANCE_RATIO, F32Two)
    /\ clientMixBufferAllocated = TRUE
    /\ frameCostUsecs = LightCostUsecs
    /\ loadChanges = 0
    /\ lastCutoffFrame = -1
    /\ lastBranch = "none"
    /\ deadline = ExactProduct(nextFrame)
    /\ lastSendAudioStreamStatsTime = 0

\* what _clientSamples can hold before its first memset, and what an
\* earlier mix leaves in it
ZeroBlock == [s \in 0..(CLIENT_SAMPLES_LENGTH - 1) |-> 0]

JunkBlock == [s \in 0..(CLIENT_SAMPLES_LENGTH - 1) |-> ((s % 7) * 1000) - 3000]

ResidueBlocks == {ZeroBlock, JunkBlock}

\* no frame has begun
NoFrameYet ==
    /\ todoNodes = <<>>
    /\ listener = "none"
    /\ todoBuffers = <<>>
    /\ lastPacket = <<>>
    /\ considered = "none"
    /\ spatial = <<>>
    /\ mixedListeners = {}
    /\ sendAudioStreamStats = FALSE
    /\ numStatFrames = 0
    /\ sumListeners = 0
    /\ sumMixes = 0
    /\ datagramsRead = 0
    /\ checks = [b \in Buffers |-> 0]
    /\ advances = [b \in Buffers |-> 0]
    /\ frameStart = [b \in Buffers |-> -1]

\* the mixer as constructed, two agents in the node list that have not
\* sent audio yet, no zone option in the payload
Init ==
    /\ SchedInit
    /\ NoFrameYet
    /\ nodeOrder \in NodeOrders
    /\ nodes = [n \in Nodes |-> [type |-> "Agent", linked |-> FALSE, activeSocket |-> TRUE,
                                 reachable |-> TRUE, sequence |-> 0]]
    /\ packets = [n \in Nodes |-> [frame |-> 0, total |-> 0]]
    /\ bufs = [b \in Buffers |-> NoBuffer]
    /\ zones = <<>>
    /\ payload = PlainPayload
    /\ useDynamicJitterBuffers = FALSE
    /\ clientSamples \in ResidueBlocks

\* the mixer as constructed and handed its payload, before run(): two
\* agents in the node list that have not sent audio yet
InitStart ==
    /\ pc = "start"
    /\ isFinished = FALSE
    /\ nextFrame = 0
    /\ elapsedUsecs = 0
    /\ usecToSleep = BUFFER_SEND_INTERVAL_USECS
    /\ framesSinceCutoffEvent = TRAILING_AVERAGE_FRAMES
    /\ trailingSleepRatio = F32One
    /\ performanceThrottlingRatio = F32Zero
    /\ minAudibilityThreshold = F32Div(LOUDNESS_TO_DISTANCE_RATIO, F32Two)
    /\ clientMixBufferAllocated = FALSE
    /\ frameCostUsecs = LightCostUsecs
    /\ loadChanges = 0
    /\ lastCutoffFrame = -1
    /\ lastBranch = "none"
    /\ deadline = ExactProduct(nextFrame)
    /\ lastSendAudioStreamStatsTime = 0
    /\ NoFrameYet
    /\ nodeOrder \in NodeOrders
    /\ nodes = [n \in Nodes |-> [type |-> "Agent", linked |-> FALSE, activeSocket |-> TRUE,
                                 reachable |-> TRUE, sequence |-> 0]]
    /\ packets = [n \in Nodes |-> [frame |-> 0, total |-> 0]]
    /\ bufs = [b \in Buffers |-> NoBuffer]
    /\ zones = <<>>
    /\ payload \in Payloads
    /\ useDynamicJitterBuffers = FALSE
    /\ clientSamples \in ResidueBlocks

\* the mixer as constructed, no agent in the node list
InitSched ==
    /\ SchedInit
    /\ NoFrameYet
    /\ nodeOrder = <<>>
    /\ nodes = [n \in Nodes |-> [type |-> "Agent", linked |-> FALSE, activeSocket |-> TRUE,
                                 reachable |-> TRUE, sequence |-> 0]]
    /\ packets = [n \in Nodes |-> [frame |-> 0, total |-> 0]]
    /\ bufs = [b \in Buffers |-> NoBuffer]
    /\ zones = <<>>
    /\ payload = PlainPayload
    /\ useDynamicJitterBuffers = FALSE
    /\ clientSamples = ZeroBlock

\* the throttling ratio after 24 raises in a row, 1 - 2^-24, and a frame at
\* which the scheduler has it
RatioAfter24Raises == F32Sub(F32One, <<1, TwoTo23, -47>>)

\* a trailing loudness of 2^-14, that of a buffer of samples of 2
QuietLoudness == <<1, TwoTo23, -37>>

\* the least float above a positive one
NextAbove(f) == IF f[2] + 1 = TwoTo24 THEN <<f[1], TwoTo23, f[3] + 1>>
                ELSE <<f[1], f[2] + 1, f[3]>>

\* a mono buffer with a frame to mix at slot 1 behind an earlier frame
ReadyBuffer(position, pattern, loudness) ==
    [NoBuffer EXCEPT !.exists = TRUE, !.position = position, !.loudness = loudness,
                     !.slots = [EmptyRing EXCEPT ![0] = "ramp", ![1] = pattern],
                     !.nextOutput = 1, !.endOfLastWrite = 2, !.framesAvailable = 1]

\* the profiles of B's microphone that SpecMix also runs with zones
ZonedProfiles == {"loud", "far", "farLoud", "stereo"}

\* --unattenuated-zone of the payload, on the x axis: B's microphone is in
\* the source zone wherever its profile puts it, A's buffers are not; A
\* listens inside the listener zone, B does not
MixZones == [source |-> <<1, 10000>>, listener |-> <<0, 0>>]

\* what node B's microphone buffer can be when a frame begins
MixProfiles == {"loud", "threshold", "above", "far", "farLoud", "starved",
                "silent", "stereo", "absent", "noSocket", "notAgent",
                "poseMissing"}

\* the profiles of B with which SpecMix also has the datagrams sent to A
\* lost by the transport
FaultProfiles == {"loud", "noSocket"}

MicBProfile(profile, threshold) ==
    CASE profile = "loud" -> ReadyBuffer(1, "max", F32One)
      [] profile = "threshold" -> ReadyBuffer(1, "k1000", threshold)
      [] profile = "above" -> ReadyBuffer(1, "k1000", NextAbove(threshold))
      [] profile = "far" ->
             ReadyBuffer(10000, "k1000", F32Div(F32FromInt(5), F32FromInt(100)))
      [] profile = "farLoud" ->
             ReadyBuffer(10000, "max", F32Div(F32One, F32FromInt(10)))
      [] profile = "starved" ->
             [ReadyBuffer(1, "max", F32One) EXCEPT !.framesAvailable = 0, !.endOfLastWrite = 1]
      [] profile = "silent" -> ReadyBuffer(1, "k1000", F32Zero)
      [] profile = "stereo" -> [ReadyBuffer(1, "ramp", F32One) EXCEPT !.stereo = TRUE]
      [] profile = "absent" -> NoBuffer
      [] profile = "noSocket" -> ReadyBuffer(1, "max", F32One)
      [] profile = "notAgent" -> ReadyBuffer(1, "max", F32One)
      [] profile = "poseMissing" -> NoBuffer

\* a frame in the middle of a run: node A has a microphone buffer and an
\* injector, node B the microphone buffer of the profile; the payload named
\* an unattenuated zone or it did not; the scheduler is
\* either as after its first frame or as SpecSched has it at frame
\* ThrottledFrame, after the 24th raise, with every loud source inaudible
InitMix ==
    \E echoA \in BOOLEAN, loopInjector \in BOOLEAN, radius \in InjectorRadii,
       profile \in MixProfiles, throttled \in BOOLEAN, zoned \in BOOLEAN,
       faultA \in BOOLEAN :
        /\ throttled => profile \in {"loud", "absent"}
        /\ zoned => profile \in ZonedProfiles
        /\ faultA => (profile \in FaultProfiles /\ ~throttled /\ ~zoned)
        /\ pc = "top"
        /\ isFinished = FALSE
        /\ clientMixBufferAllocated = TRUE
        /\ nextFrame = IF throttled THEN ThrottledFrame ELSE 1
        /\ elapsedUsecs = IF throttled THEN 30648000 ELSE BUFFER_SEND_INTERVAL_USECS
        /\ usecToSleep = IF throttled THEN -5108000
                         ELSE BUFFER_SEND_INTERVAL_USECS - LightCostUsecs
        /\ trailingSleepRatio =
               IF throttled THEN <<1, 16576469, -61>>
               ELSE TrailingSleepRatio(F32One, BUFFER_SEND_INTERVAL_USECS)
        /\ framesSinceCutoffEvent = IF throttled THEN 0 ELSE TRAILING_AVERAGE_FRAMES + 1
        /\ lastCutoffFrame = IF throttled THEN ThrottledFrame - 1 ELSE -1
        /\ lastBranch = IF throttled THEN "raise" ELSE "none"
        /\ deadline = ExactProduct(nextFrame)
        /\ performanceThrottlingRatio = IF throttled THEN RatioAfter24Raises ELSE F32Zero
        /\ minAudibilityThreshold =
               AudibilityThreshold(IF throttled THEN RatioAfter24Raises ELSE F32Zero)
        /\ frameCostUsecs = IF throttled THEN HeavyCostUsecs ELSE LightCostUsecs
        /\ loadChanges = IF throttled THEN 1 ELSE 0
        /\ lastSendAudioStreamStatsTime = IF throttled THEN 30240000 ELSE 0
        /\ NoFrameYet
        /\ nodeOrder \in NodeOrders
        /\ nodes = [n \in Nodes |->
                       IF n = "A"
                       THEN [type |-> "Agent", linked |-> TRUE, activeSocket |-> TRUE,
                             reachable |-> ~faultA, sequence |-> 65535]
                       ELSE [type |-> IF profile = "notAgent" THEN "AvatarMixer"
                                      ELSE "Agent",
                             linked |-> profile # "absent",
                             activeSocket |-> profile # "noSocket",
                             reachable |-> TRUE, sequence |-> 7]]
        /\ packets = [n \in Nodes |->
                         [frame |-> 0, total |-> IF n = "A" THEN 65535 ELSE 7]]
        /\ bufs = [b \in Buffers |->
                      IF b = "micA"
                      THEN [NoBuffer EXCEPT
                               !.exists = TRUE, !.loopback = echoA,
                               !.loudness = IF throttled THEN QuietLoudness ELSE F32One,
                               !.slots = [EmptyRing EXCEPT
                                             ![0] = IF throttled THEN "two" ELSE "max",
                                             ![9] = "k1000"],
                               !.endOfLastWrite = 1, !.framesAvailable = 1]
                      ELSE IF b = "injA"
                      THEN [ReadyBuffer(-1, "min", F32One) EXCEPT
                               !.loopback = loopInjector, !.radius = radius,
                               !.attenuationRatio = IF radius > 0 THEN F32Half
                                                    ELSE F32One]
                      ELSE MicBProfile(profile,
                               AudibilityThreshold(IF throttled THEN RatioAfter24Raises
                                                   ELSE F32Zero))]
        /\ zones = IF zoned THEN MixZones ELSE <<>>
        /\ payload = IF zoned THEN ZonedPayload ELSE PlainPayload
        /\ useDynamicJitterBuffers = FALSE
        /\ clientSamples = JunkBlock

\* what node B's microphone buffer can be in SpecNear
NearProfiles == {"loud", "stereo", "absent"}

\* a frame in the middle of a run, as in InitMix without throttling and
\* zones, with all buffers at one position: the injector of node A is at
\* A's avatar, and the avatar of node B stands where A's does
InitNear ==
    \E echoA \in BOOLEAN, loopInjector \in BOOLEAN, radius \in InjectorRadii,
       profile \in NearProfiles :
        /\ pc = "top"
        /\ isFinished = FALSE
        /\ clientMixBufferAllocated = TRUE
        /\ nextFrame = 1
        /\ elapsedUsecs = BUFFER_SEND_INTERVAL_USECS
        /\ usecToSleep = BUFFER_SEND_INTERVAL_USECS - LightCostUsecs
        /\ trailingSleepRatio = TrailingSleepRatio(F32One, BUFFER_SEND_INTERVAL_USECS)
        /\ framesSinceCutoffEvent = TRAILING_AVERAGE_FRAMES + 1
        /\ lastCutoffFrame = -1
        /\ lastBranch = "none"
        /\ deadline = ExactProduct(nextFrame)
        /\ performanceThrottlingRatio = F32Zero
        /\ minAudibilityThreshold = AudibilityThreshold(F32Zero)
        /\ frameCostUsecs = LightCostUsecs
        /\ loadChanges = 0
        /\ lastSendAudioStreamStatsTime = 0
        /\ NoFrameYet
        /\ nodeOrder \in NodeOrders
        /\ nodes = [n \in Nodes |->
                       [type |-> "Agent", linked |-> (n = "A" \/ profile # "absent"),
                        activeSocket |-> TRUE, reachable |-> TRUE, sequence |-> 7]]
        /\ packets = [n \in Nodes |-> [frame |-> 0, total |-> 7]]
        /\ bufs = [b \in Buffers |->
                      IF b = "micA"
                      THEN [ReadyBuffer(0, "k1000", F32One) EXCEPT !.loopback = echoA]
                      ELSE IF b = "injA"
                      THEN [ReadyBuffer(0, "min", F32One) EXCEPT
                               !.loopback = loopInjector, !.radius = radius]
                      ELSE [MicBProfile(profile, F32One) EXCEPT !.position = 0]]
        /\ zones = <<>>
        /\ payload = PlainPayload
        /\ useDynamicJitterBuffers = FALSE
        /\ clientSamples = JunkBlock

\* ------------------------------------------------------------------------
\* the listener and source loops of a frame
\* ------------------------------------------------------------------------

InHash(n) == \E i \in DOMAIN nodeOrder : nodeOrder[i] = n

\* a ring buffer that the loops over the nodes' client data reach
IsAttached(b) == InHash(Owner(b)) /\ nodes[Owner(b)].linked /\ bufs[b].exists

\* line 534-539: the buffers that get their check before the frame
ChecksBuffer(b) == IsAttached(b)

\* line 641-645 with a test added: only buffers that a listener of the
\* frame was offered move on
PushesHeardBuffer(b) ==
    IsAttached(b) /\ \E n \in mixedListeners : ShouldAddToMix(Owner(b), n, bufs[b])

\* line 641-645: the buffers that are moved on after the frame
PushesBuffer(b) == IsAttached(b)

\* line 605-606 (every node of the model is an agent)
\* line 605-606 without the test of the active socket
IsListenerWithoutSocket(n) ==
    /\ nodes[n].type = "Agent"
    /\ nodes[n].linked
    /\ bufs[AvatarBufferOf(n)].exists

IsListener(n) ==
    /\ nodes[n].type = "Agent"
    /\ nodes[n].activeSocket
    /\ nodes[n].linked
    /\ bufs[AvatarBufferOf(n)].exists

\* line 364-371: the buffers in the order the two nested loops visit them
RECURSIVE SourceBuffers(_)
SourceBuffers(order) ==
    IF order = <<>> THEN <<>>
    ELSE (IF nodes[Head(order)].linked
          THEN SelectSeq(RingBuffersOf(Head(order)), LAMBDA b : bufs[b].exists)
          ELSE <<>>) \o SourceBuffers(Tail(order))

\* line 594-602
\* a loop that tests nothing at its top
LoopForever(finished) == TRUE

\* line 532: while (!_isFinished)
LoopCondition(finished) == ~finished

StatsDue(now, last) == now - last > USECS_PER_SECOND

\* line 622: the samples that go into the packet
PacketSamples(samples) ==
    [s \in 0..(NETWORK_BUFFER_LENGTH_SAMPLES_STEREO - 1) |-> samples[s]]

\* an increment of the sequence number by two
SkippingSequence(sequence) == (sequence + 2) % 65536

\* quint16 increment
NextSequence(sequence) == (sequence + 1) % 65536

\* line 532-602: pre-frame checks, throttle, stream stats timer
BeginFrame(maxFrames) ==
    /\ pc = "top"
    /\ LoopCondition(isFinished)
    /\ nextFrame < maxFrames
    /\ bufs' = [b \in Buffers |->
                   IF ChecksBuffer(b) THEN CheckBuffer(bufs[b], zones) ELSE bufs[b]]
    /\ checks' = [b \in Buffers |-> IF ChecksBuffer(b) THEN 1 ELSE 0]
    /\ advances' = [b \in Buffers |-> 0]
    /\ frameStart' = [b \in Buffers |->
                         IF ChecksBuffer(b) /\ CheckBuffer(bufs[b], zones).willBeAdded
                         THEN bufs[b].nextOutput ELSE -1]
    /\ mixedListeners' = {}
    /\ packets' = [n \in Nodes |-> [packets[n] EXCEPT !.frame = 0]]
    /\ ScheduleFrame
    /\ sendAudioStreamStats' = StatsDue(elapsedUsecs, lastSendAudioStreamStatsTime)
    /\ lastSendAudioStreamStatsTime' =
           IF StatsDue(elapsedUsecs, lastSendAudioStreamStatsTime) THEN elapsedUsecs
           ELSE lastSendAudioStreamStatsTime
    /\ todoNodes' = nodeOrder
    /\ listener' = "none"
    /\ todoBuffers' = <<>>
    /\ considered' = "none"
    /\ spatial' = <<>>
    /\ pc' = "mix"
    /\ UNCHANGED <<isFinished, nextFrame, elapsedUsecs, deadline,
                   clientMixBufferAllocated,
                   frameCostUsecs, loadChanges, nodeOrder, nodes, configVars,
                   datagramsRead, clientSamples, lastPacket, numStatFrames,
                   sumListeners, sumMixes>>

\* line 604-606: a node that is not an eligible listener
SkipListener ==
    /\ pc = "mix"
    /\ listener = "none"
    /\ todoNodes # <<>>
    /\ ~IsListener(Head(todoNodes))
    /\ todoNodes' = Tail(todoNodes)
    /\ UNCHANGED <<schedVars, clientVars, statVars, frameVars, clientSamples,
                   listener, todoBuffers, lastPacket, considered, spatial,
                   mixedListeners,
                   packets>>

\* line 610 and 357-361: prepareMixForListeningNode up to its loop
StartListener ==
    /\ pc = "mix"
    /\ listener = "none"
    /\ todoNodes # <<>>
    /\ IsListener(Head(todoNodes))
    /\ listener' = Head(todoNodes)
    /\ clientSamples' = ZeroedClientSamples(clientSamples)
    /\ todoBuffers' = SourceBuffers(nodeOrder)
    /\ considered' = "none"
    /\ spatial' = <<>>
    /\ UNCHANGED <<schedVars, clientVars, statVars, frameVars, todoNodes,
                   lastPacket, mixedListeners, packets>>

\* line 373-378: the block and _sumMixes after the buffer was looked at
ConsiderWith(mix) ==
    /\ clientSamples' = mix.samples
    /\ sumMixes' = IF mix.counted THEN sumMixes + 1 ELSE sumMixes

\* line 371-378: one buffer of the source loop
ConsiderBuffer ==
    /\ pc = "mix"
    /\ listener # "none"
    /\ todoBuffers # <<>>
    /\ IF ShouldAddToMix(Owner(Head(todoBuffers)), listener, bufs[Head(todoBuffers)])
       THEN \E params \in {Spatialize(bufs[Head(todoBuffers)],
                                       IsInjector(Head(todoBuffers)),
                                       bufs[AvatarBufferOf(listener)],
                                       Head(todoBuffers) = AvatarBufferOf(listener),
                                       minAudibilityThreshold, zones)} :
                /\ spatial' = params
                /\ IF F32IsNaN(params.attenuationCoefficient)
                   THEN \E conversion \in NaNConversions :
                            ConsiderWith([samples |-> MixNotANumber(clientSamples,
                                                                   bufs[Head(todoBuffers)],
                                                                   conversion),
                                          counted |-> TRUE])
                   ELSE ConsiderWith(MixWithParams(clientSamples,
                                                   bufs[Head(todoBuffers)], params))
       ELSE UNCHANGED <<clientSamples, sumMixes>> /\ spatial' = <<>>
    /\ considered' = Head(todoBuffers)
    /\ todoBuffers' = Tail(todoBuffers)
    /\ UNCHANGED <<schedVars, clientVars, frameVars, todoNodes, listener,
                   lastPacket, mixedListeners, packets, sendAudioStreamStats,
                   lastSendAudioStreamStatsTime, numStatFrames, sumListeners>>

\* line 612-636: the mix goes out with the listener's sequence number
SendMix ==
    /\ pc = "mix"
    /\ listener # "none"
    /\ todoBuffers = <<>>
    /\ lastPacket' = [to |-> listener, sequence |-> nodes[listener].sequence,
                      samples |-> PacketSamples(clientSamples),
                      streamStats |-> sendAudioStreamStats,
                      delivered |-> nodes[listener].reachable]
    /\ nodes' = [nodes EXCEPT ![listener].sequence = NextSequence(@)]
    /\ sumListeners' = sumListeners + 1
    /\ mixedListeners' = mixedListeners \cup {listener}
    /\ packets' = [packets EXCEPT ![listener] =
                       [frame |-> @.frame + 1, total |-> @.total + 1]]
    /\ todoNodes' = Tail(todoNodes)
    /\ listener' = "none"
    /\ considered' = "none"
    /\ spatial' = <<>>
    /\ UNCHANGED <<schedVars, frameVars, nodeOrder, bufs, configVars, datagramsRead,
                   clientSamples, todoBuffers, sendAudioStreamStats,
                   lastSendAudioStreamStatsTime, numStatFrames, sumMixes>>

\* line 640-647: every buffer moves on, the frame is counted
PushBuffers ==
    /\ pc = "mix"
    /\ listener = "none"
    /\ todoNodes = <<>>
    /\ bufs' = [b \in Buffers |->
                   IF PushesBuffer(b) THEN AdvanceBuffer(bufs[b]) ELSE bufs[b]]
    /\ advances' = [b \in Buffers |->
                       IF PushesBuffer(b) THEN advances[b] + 1 ELSE advances[b]]
    /\ numStatFrames' = numStatFrames + 1
    /\ pc' = "events"
    /\ elapsedUsecs' = elapsedUsecs + frameCostUsecs
    /\ UNCHANGED <<isFinished, nextFrame, usecToSleep, framesSinceCutoffEvent,
                   trailingSleepRatio, performanceThrottlingRatio,
                   minAudibilityThreshold, clientMixBufferAllocated,
                   frameCostUsecs, loadChanges, lastCutoffFrame, lastBranch, deadline,
                   nodeOrder, nodes, configVars, datagramsRead, mixVars, checks,
                   frameStart,
                   sendAudioStreamStats, lastSendAudioStreamStatsTime,
                   sumListeners, sumMixes>>

\* ------------------------------------------------------------------------
\* QCoreApplication::processEvents, line 649, and the end of the pass
\* ------------------------------------------------------------------------

\* a transport that delivers datagrams to the mixer while it mixes
DeliversDatagramsDuringMix(p) == p \in {"mix", "events"}

\* line 649: the readyRead signal of the node socket reaches
\* readPendingDatagrams only inside processEvents
DeliversDatagrams(p) == p = "events"

\* the audio datagrams the clients of the model send: type, sending node,
\* contents of the frame, the trailing loudness the ring buffer has with it
Datagrams ==
    {[type |-> "MicrophoneAudioNoEcho", node |-> "A", pattern |-> "k1000",
      loudness |-> F32Div(F32FromInt(1000), F32FromInt(MAX_SAMPLE_VALUE))],
     [type |-> "MicrophoneAudioWithEcho", node |-> "A", pattern |-> "max",
      loudness |-> F32One],
     [type |-> "InjectAudio", node |-> "A", pattern |-> "min", loudness |-> F32One],
     [type |-> "MicrophoneAudioNoEcho", node |-> "B", pattern |-> "max",
      loudness |-> F32One]}

\* where the buffers of the model are: x coordinates
PositionOf(b) == IF b = "micA" THEN 0 ELSE IF b = "injA" THEN -1 ELSE 1

\* line 394-399 and AudioMixerClientData::parseData: the node gets client
\* data, the buffer the datagram is for is created when it is the first,
\* and the frame is written to it
BufferAfterDatagram(buf, b, d) ==
    WriteFrame([buf EXCEPT !.exists = TRUE,
                           !.loopback = (d.type # "MicrophoneAudioNoEcho"),
                           !.position = PositionOf(b),
                           !.loudness = d.loudness],
               d.pattern)

ReadDatagram(d) ==
    /\ DeliversDatagrams(pc)
    /\ datagramsRead < MaxDatagrams
    /\ LET b == IF d.type = "InjectAudio" THEN "injA" ELSE AvatarBufferOf(d.node)
       IN bufs' = [bufs EXCEPT ![b] = BufferAfterDatagram(bufs[b], b, d)]
    /\ nodes' = [nodes EXCEPT ![d.node].linked = TRUE]
    /\ datagramsRead' = datagramsRead + 1
    /\ UNCHANGED <<schedVars, mixVars, statVars, frameVars, nodeOrder, configVars>>

\* ThreadedAssignment::stop, run from the event loop or before run()
SetFinished ==
    /\ pc = "events" \/ (pc = "top" /\ nextFrame = 0)
    /\ ~isFinished
    /\ isFinished' = TRUE
    /\ UNCHANGED <<pc, nextFrame, elapsedUsecs, usecToSleep, framesSinceCutoffEvent,
                   trailingSleepRatio, performanceThrottlingRatio,
                   minAudibilityThreshold, clientMixBufferAllocated,
                   frameCostUsecs, loadChanges, lastCutoffFrame, lastBranch, deadline,
                   clientVars,
                   mixVars, statVars, frameVars>>

\* line 418-434, on the stats timer
SendStatsPacket ==
    /\ pc = "events"
    /\ numStatFrames > 0
    /\ sumListeners' = 0
    /\ sumMixes' = 0
    /\ numStatFrames' = 0
    /\ UNCHANGED <<schedVars, clientVars, mixVars, frameVars,
                   sendAudioStreamStats, lastSendAudioStreamStatsTime>>

\* line 651-659
AfterEvents ==
    /\ pc = "events"
    /\ IF isFinished
       THEN /\ pc' = "done"
            /\ clientMixBufferAllocated' = FALSE
            /\ UNCHANGED <<nextFrame, usecToSleep, elapsedUsecs, deadline>>
       ELSE /\ pc' = "top"
            /\ nextFrame' = nextFrame + 1
            /\ \E product \in DeadlineProducts(nextFrame + 1) :
                   /\ deadline' = product
                   /\ usecToSleep' = UsecToSleepFrom(product, nextFrame + 1, elapsedUsecs)
                   /\ elapsedUsecs' =
                          ElapsedAfterSleep(UsecToSleepFrom(product, nextFrame + 1,
                                                            elapsedUsecs),
                                            elapsedUsecs)
            /\ UNCHANGED clientMixBufferAllocated
    /\ UNCHANGED <<isFinished, framesSinceCutoffEvent, trailingSleepRatio,
                   performanceThrottlingRatio, minAudibilityThreshold,
                   frameCostUsecs, loadChanges, lastCutoffFrame, lastBranch,
                   clientVars,
                   mixVars, statVars, frameVars>>

\* line 532 and 662: the loop is not entered again once _isFinished is set
ExitLoop ==
    /\ pc = "top"
    /\ ~LoopCondition(isFinished)
    /\ pc' = "done"
    /\ clientMixBufferAllocated' = FALSE
    /\ UNCHANGED <<isFinished, nextFrame, elapsedUsecs, usecToSleep,
                   framesSinceCutoffEvent, trailingSleepRatio,
                   performanceThrottlingRatio, minAudibilityThreshold,
                   frameCostUsecs, loadChanges, lastCutoffFrame, lastBranch, deadline,
                   clientVars,
                   mixVars, statVars, frameVars>>

\* the environment: the machine's load changes between two frames
ChangeLoad ==
    /\ pc = "top"
    /\ loadChanges < MaxLoadChanges
    /\ nextFrame % LoadGrain = 0
    /\ nextFrame < MaxSchedFrames
    /\ loadChanges' = loadChanges + 1
    /\ frameCostUsecs' =
           IF frameCostUsecs = LightCostUsecs THEN HeavyCostUsecs ELSE LightCostUsecs
    /\ UNCHANGED <<pc, isFinished, nextFrame, elapsedUsecs, usecToSleep,
                   framesSinceCutoffEvent, trailingSleepRatio,
                   performanceThrottlingRatio, minAudibilityThreshold,
                   clientMixBufferAllocated, lastCutoffFrame, lastBranch, deadline,
                   clientVars,
                   mixVars, statVars, frameVars>>

\* ------------------------------------------------------------------------
\* specifications
\* ------------------------------------------------------------------------

\* the microphone datagram of node n that opens SpecSeq
FirstDatagramOf(n) ==
    CHOOSE d \in Datagrams : d.node = n /\ d.type = "MicrophoneAudioNoEcho"

\* the ring buffer of microphone b in frame 1 of SpecSeq, after line 534-539
FirstFrameBuffer(b) ==
    CheckBuffer(BufferAfterDatagram(NoBuffer, b, FirstDatagramOf(Owner(b))), <<>>)

\* the block after the mix of frame 1 for the listener with microphone own,
\* whose one source is the microphone of the other node; samples is the
\* block before it
MixOfFirstFrame(samples, source, own, threshold) ==
    IF samples \in [0..(CLIENT_SAMPLES_LENGTH - 1) -> Int]
    THEN AddBufferToMix(ZeroedClientSamples(samples), source, FALSE, own, FALSE,
                        threshold, <<>>).samples
    ELSE samples

\* what trailingSleepRatio settles at, in single precision, when every
\* frame sleeps usec microseconds: the value the update leaves unchanged
SteadySleepRatio == <<1, 13421862, -24>>

\* the mixer at the top of frame first, with both nodes sending their first
\* microphone datagram in the processEvents call of frame 0 and nothing
\* after it, every frame costing LightCostUsecs: frame 1 when fresh, and a
\* later frame after first - 1 frames of that run (first >= 3), by when the
\* two ring buffers have starved and the mix is silence, the samples behind
\* the stereo frame being those the delayed channels of frame 1 left
InitSeqAt(first, fresh) ==
    /\ pc = "top"
    /\ isFinished = FALSE
    /\ clientMixBufferAllocated = TRUE
    /\ nextFrame = first
    /\ elapsedUsecs = (first - TimerEpochFrame(first)) * BUFFER_SEND_INTERVAL_USECS
    /\ usecToSleep = BUFFER_SEND_INTERVAL_USECS - LightCostUsecs
    /\ trailingSleepRatio =
           IF fresh THEN TrailingSleepRatio(F32One, BUFFER_SEND_INTERVAL_USECS)
           ELSE SteadySleepRatio
    /\ TrailingSleepRatio(SteadySleepRatio, usecToSleep) = SteadySleepRatio
    /\ framesSinceCutoffEvent = TRAILING_AVERAGE_FRAMES + first
    /\ lastCutoffFrame = -1
    /\ lastBranch = "none"
    /\ deadline = ExactProduct(nextFrame)
    /\ performanceThrottlingRatio = F32Zero
    /\ minAudibilityThreshold = AudibilityThreshold(F32Zero)
    /\ frameCostUsecs = LightCostUsecs
    /\ loadChanges = 0
    /\ lastSendAudioStreamStatsTime =
           (((first - 1) \div 101) * (101 * BUFFER_SEND_INTERVAL_USECS))
               - (TimerEpochFrame(first) * BUFFER_SEND_INTERVAL_USECS)
    /\ sendAudioStreamStats = (first > 1 /\ (first - 1) % 101 = 0)
    /\ todoNodes = <<>>
    /\ listener = "none"
    /\ todoBuffers = <<>>
    /\ considered = "none"
    /\ spatial = <<>>
    /\ numStatFrames = first
    /\ sumListeners = 2 * (first - 1)
    /\ sumMixes = IF fresh THEN 0 ELSE 2
    /\ datagramsRead = 2
    /\ nodeOrder = <<"A", "B">>
    /\ zones = <<>>
    /\ payload = PlainPayload
    /\ useDynamicJitterBuffers = FALSE
    /\ frameStart = [b \in Buffers |-> -1]
    /\ checks = [b \in Buffers |-> IF fresh \/ b = "injA" THEN 0 ELSE 1]
    /\ advances = [b \in Buffers |-> IF fresh \/ b = "injA" THEN 0 ELSE 1]
    /\ mixedListeners = IF fresh THEN {} ELSE {"A", "B"}
    /\ nodes = [n \in Nodes |-> [type |-> "Agent", linked |-> TRUE,
                                 activeSocket |-> TRUE, reachable |-> TRUE,
                                 sequence |-> (first - 1) % 65536]]
    /\ packets = [n \in Nodes |-> [frame |-> IF fresh THEN 0 ELSE 1,
                                   total |-> first - 1]]
    /\ lastPacket =
           IF fresh THEN <<>>
           ELSE [to |-> "B", sequence |-> (first - 2) % 65536,
                 samples |-> PacketSamples(ZeroBlock),
                 streamStats |-> (first > 2 /\ (first - 2) % 101 = 0),
                 delivered |-> TRUE]
    /\ bufs = [b \in Buffers |->
                  IF b = "injA" THEN NoBuffer
                  ELSE IF fresh
                  THEN BufferAfterDatagram(NoBuffer, b, FirstDatagramOf(Owner(b)))
                  ELSE CheckBuffer(AdvanceBuffer(FirstFrameBuffer(b)), <<>>)]
    /\ IF fresh THEN clientSamples = JunkBlock
       ELSE \E micA \in {FirstFrameBuffer("micA")} :
                \E micB \in {FirstFrameBuffer("micB")} :
                    \E forA \in {MixOfFirstFrame(JunkBlock, micB, micA,
                                                 minAudibilityThreshold)} :
                        \E forB \in {MixOfFirstFrame(forA, micA, micB,
                                                     minAudibilityThreshold)} :
                            clientSamples = ZeroedClientSamples(forB)

\* the run of SpecSeq: its first frames, and the frames around the one in
\* which the 16-bit sequence numbers come round
InitSeq == \E fresh \in BOOLEAN : InitSeqAt(IF fresh THEN 1 ELSE SeqLateFrame, fresh)

\* line 474-530: the options of the payload are read and the network buffer
\* allocated. A zone option with fewer than twelve entries makes lines
\* 492-496 index the list beyond its end: the thread stops there, or goes
\* on with what it read
ReadPayload ==
    /\ pc = "start"
    /\ \/ /\ ~RegexMatches(payload)
          /\ pc' = "top"
          /\ zones' = zones
       \/ /\ RegexMatches(payload)
          /\ Len(payload.zoneStringList) >= ZoneFloats
          /\ pc' = "top"
          /\ zones' = ZonesOf(payload.zoneStringList, <<>>)
       \/ /\ RegexMatches(payload)
          /\ Len(payload.zoneStringList) < ZoneFloats
          /\ \/ /\ pc' = "crashed"
                /\ zones' = zones
             \/ /\ pc' = "top"
                /\ \E beyond \in [MissingEntries(payload.zoneStringList) -> StrayFloats] :
                       zones' = ZonesOf(payload.zoneStringList, beyond)
    /\ useDynamicJitterBuffers' =
           IF pc' = "top" /\ payload.dynamicJitterBuffer THEN TRUE
           ELSE useDynamicJitterBuffers
    /\ clientMixBufferAllocated' = (pc' = "top")
    /\ UNCHANGED <<isFinished, nextFrame, elapsedUsecs, usecToSleep,
                   framesSinceCutoffEvent, trailingSleepRatio,
                   performanceThrottlingRatio, minAudibilityThreshold,
                   frameCostUsecs, loadChanges, lastCutoffFrame, lastBranch, deadline,
                   payload, nodeOrder, nodes, bufs, datagramsRead,
                   mixVars, statVars, frameVars>>

\* the mixer from its construction, with clients
Next ==
    \/ BeginFrame(MaxFrames)
    \/ SkipListener
    \/ StartListener
    \/ ConsiderBuffer
    \/ SendMix
    \/ PushBuffers
    \/ \E d \in Datagrams : ReadDatagram(d)
    \/ SendStatsPacket
    \/ SetFinished
    \/ AfterEvents
    \/ ExitLoop

Spec == Init /\ [][Next]_vars

\* the mixer from before run(), with its payload, and its first frames
MaxStartFrames == 2

NextStart ==
    \/ ReadPayload
    \/ BeginFrame(MaxStartFrames)
    \/ SkipListener
    \/ StartListener
    \/ ConsiderBuffer
    \/ SendMix
    \/ PushBuffers
    \/ \E d \in Datagrams : ReadDatagram(d)
    \/ AfterEvents

SpecStart == InitStart /\ [][NextStart]_vars

\* processEvents returns and the thread goes on to the test of line 651;
\* at the top of the loop it goes on to the test of line 532
SpecLive == Spec /\ WF_vars(AfterEvents) /\ WF_vars(ExitLoop)

\* the frame scheduler over a long run, without clients
NextSched ==
    \/ BeginFrame(MaxSchedFrames)
    \/ PushBuffers
    \/ AfterEvents
    \/ ChangeLoad

SpecSched == InitSched /\ [][NextSched]_vars

\* one frame in the middle of a run
NextMix ==
    \/ BeginFrame(ThrottledFrame + 1)
    \/ SkipListener
    \/ StartListener
    \/ ConsiderBuffer
    \/ SendMix
    \/ PushBuffers

SpecMix == InitMix /\ [][NextMix]_vars

\* one frame with all buffers at one position
SpecNear == InitNear /\ [][NextMix]_vars

\* two listeners over MaxSeqFrames frames, no further datagrams
NextSeq ==
    \/ BeginFrame(IF nextFrame < SeqLateFrame THEN SeqEarlyFrames ELSE MaxSeqFrames)
    \/ StartListener
    \/ ConsiderBuffer
    \/ SendMix
    \/ PushBuffers
    \/ AfterEvents

SpecSeq == InitSeq /\ [][NextSeq]_vars

\* a run of two clients as in SpecSeq that has lasted 35 minutes, about
\* the frame whose deadline is the first beyond INT_MAX microseconds
InitLong == InitSeqAt(LongFirstFrame, FALSE)

NextLong ==
    \/ BeginFrame(MaxLongFrames)
    \/ StartListener
    \/ ConsiderBuffer
    \/ SendMix
    \/ PushBuffers
    \/ AfterEvents

SpecLong == InitLong /\ [][NextLong]_vars

\* ------------------------------------------------------------------------
\* properties of the mix of one listener (SpecMix)
\* ------------------------------------------------------------------------

\* a step of the source loop that looks at buffer b
ConsidersStep(b) ==
    /\ pc = "mix"
    /\ listener # "none"
    /\ todoBuffers # <<>>
    /\ Head(todoBuffers) = b
    /\ considered' = b
    /\ todoBuffers' = Tail(todoBuffers)

\* the tests of line 373-376 on buffer b for the listener lst
IsEligible(b, lst) ==
    /\ Owner(b) # lst \/ bufs[b].loopback
    /\ bufs[b].willBeAdded
    /\ F32Lt(F32Zero, bufs[b].loudness)

\* what buffer b adds for the listener lst to a block of zeros
ContributionOf(b, lst) ==
    IF IsEligible(b, lst)
    THEN AddBufferToMix(ZeroBlock, bufs[b], IsInjector(b), bufs[AvatarBufferOf(lst)],
                        b = AvatarBufferOf(lst), minAudibilityThreshold, zones).samples
    ELSE ZeroBlock

InSampleRange(v) == MIN_SAMPLE_VALUE <= v /\ v <= MAX_SAMPLE_VALUE

SaturatedSum(old, contribution) ==
    IF old + contribution > 32767 THEN 32767
    ELSE IF old + contribution < -32768 THEN -32768
    ELSE old + contribution

\* the block that must follow the block old when contribution is added
SaturatedBlock(old, contribution) ==
    [s \in 0..(NETWORK_BUFFER_LENGTH_SAMPLES_STEREO - 1) |->
        SaturatedSum(old[s], contribution[s])]

\* some sample of the block is at the upper bound where the two
\* contributions, both positive, sum to more
SaturatedAbove(samples, first, second) ==
    \E s \in 0..(NETWORK_BUFFER_LENGTH_SAMPLES_STEREO - 1) :
        /\ samples[s] = MAX_SAMPLE_VALUE
        /\ first[s] > 0
        /\ second[s] > 0
        /\ first[s] + second[s] > MAX_SAMPLE_VALUE

\* C1: whenever a source is looked at for a listener, every sample of the
\* block afterwards is the sample before plus what the source contributes,
\* saturated at -32768 and 32767 (never wrapped), and so lies in
\* [-32768, 32767]; this holds for the mono-spatialized and for the
\* stereo/unattenuated branch.
C1_SaturatingAccumulation ==
    [][\A b \in Buffers :
          ConsidersStep(b) =>
              /\ \A s \in 0..(NETWORK_BUFFER_LENGTH_SAMPLES_STEREO - 1) :
                     InSampleRange(clientSamples'[s])
              /\ PacketSamples(clientSamples') =
                     SaturatedBlock(clientSamples, ContributionOf(b, listener))]_vars

\* C1 witness: listener A has heard its own echoed microphone and B's loud
\* microphone; some sample stands at 32767 although the two contributions
\* sum to more
C1_Witness ==
    /\ pc = "mix"
    /\ listener = "A"
    /\ todoBuffers = <<>>
    /\ considered # "none"
    /\ SaturatedAbove(clientSamples, ContributionOf("micA", "A"),
                      ContributionOf("micB", "A"))

\* C2: a buffer of the listener's own node whose loopback flag is off
\* leaves the listener's block as it was when it is looked at, whatever the
\* buffer holds.
C2_NoSelfMixWithoutLoopback ==
    [][\A b \in Buffers :
          (ConsidersStep(b) /\ Owner(b) = listener /\ ~bufs[b].loopback)
              => (clientSamples' = clientSamples /\ sumMixes' = sumMixes)]_vars

\* C2 witness: listener A's own microphone, ready, loud and full of 32767,
\* has just been looked at with its loopback off
C2_Witness ==
    /\ pc = "mix"
    /\ listener = "A"
    /\ considered = "micA"
    /\ ~bufs["micA"].loopback
    /\ bufs["micA"].willBeAdded
    /\ F32Lt(F32Zero, bufs["micA"].loudness)
    /\ \A i \in 0..(NETWORK_BUFFER_LENGTH_SAMPLES_PER_CHANNEL - 1) :
           NextOutputSample(bufs["micA"], i) = MAX_SAMPLE_VALUE

\* some buffer passes the tests of line 373-376 for the listener lst
HasEligibleSource(lst) ==
    \E b \in Buffers : IsAttached(b) /\ IsEligible(b, lst)

AllZero(samples) ==
    \A s \in 0..(NETWORK_BUFFER_LENGTH_SAMPLES_STEREO - 1) : samples[s] = 0

\* C3: when the mix of a listener has started and no source has been looked
\* at yet, the 480 samples that will be sent are all zero; and the packet
\* sent to a listener none of whose sources is eligible holds only zeros.
C3_ZeroedBeforeMix ==
    /\ (pc = "mix" /\ listener # "none" /\ considered = "none")
           => AllZero(clientSamples)
    /\ (pc = "mix" /\ lastPacket # <<>> /\ lastPacket.to \in mixedListeners
            /\ ~HasEligibleSource(lastPacket.to))
           => AllZero(lastPacket.samples)

\* C3 witness: a packet went to a listener without eligible sources in a
\* frame that began with residue in the block
C3_Witness ==
    /\ pc = "mix"
    /\ lastPacket # <<>>
    /\ lastPacket.to \in mixedListeners
    /\ ~HasEligibleSource(lastPacket.to)
    /\ AllZero(lastPacket.samples)
    /\ \E s \in NETWORK_BUFFER_LENGTH_SAMPLES_STEREO..(CLIENT_SAMPLES_LENGTH - 1) :
           clientSamples[s] # 0

\* C4: a buffer that will not be added to the mix (starved) or whose
\* trailing loudness is 0 leaves the listener's block and the count of mixes
\* as they were when it is looked at, and the source loop goes on to the
\* buffers after it.
C4_UnreadySourceSkipped ==
    [][\A b \in Buffers :
          (ConsidersStep(b)
              /\ (~bufs[b].willBeAdded \/ ~F32Lt(F32Zero, bufs[b].loudness)))
              => /\ clientSamples' = clientSamples
                 /\ sumMixes' = sumMixes
                 /\ listener' = listener
                 /\ todoBuffers' = Tail(todoBuffers)]_vars

\* C4 witness: B's microphone, starved or silent, was looked at before A's
\* echoed microphone, and the packet that went to A is not silent
C4_Witness ==
    /\ pc = "mix"
    /\ nodeOrder = <<"B", "A">>
    /\ lastPacket # <<>>
    /\ lastPacket.to = "A"
    /\ "A" \in mixedListeners
    /\ bufs["micB"].exists
    /\ ~bufs["micB"].willBeAdded \/ ~F32Lt(F32Zero, bufs["micB"].loudness)
    /\ bufs["micA"].loopback
    /\ ~AllZero(lastPacket.samples)

\* loudness over distance of buffer b for the listener lst, line 100-108
AudibilityOf(b, lst) ==
    F32Div(bufs[b].loudness,
           DistanceBetween(bufs[b].position - bufs[AvatarBufferOf(lst)].position))

\* the frame a buffer has at its output, one sample per stereo slot
FrameSamplesInterleaved(buf) ==
    [s \in 0..(NETWORK_BUFFER_LENGTH_SAMPLES_STEREO - 1) |->
        NextOutputSample(buf, IF buf.stereo THEN s ELSE s \div 2)]

\* the gate on the buffers in scope: at or below the threshold nothing is
\* added or counted, above it the buffer is counted as a mix
GateDecides(scope) ==
    \A b \in scope :
        (ConsidersStep(b) /\ IsEligible(b, listener))
            => IF F32Le(AudibilityOf(b, listener), minAudibilityThreshold)
               THEN clientSamples' = clientSamples /\ sumMixes' = sumMixes
               ELSE sumMixes' = sumMixes + 1

\* C5 as stated: for every buffer the mixer looks at, the listener's own
\* looped-back buffers included, loudness / distance <= threshold means the
\* buffer adds nothing to the block.
C5_GateOnEverySource ==
    [][\A b \in Buffers :
          (ConsidersStep(b) /\ IsEligible(b, listener)
              /\ F32Le(AudibilityOf(b, listener), minAudibilityThreshold))
              => clientSamples' = clientSamples]_vars

\* C5: for every buffer other than the listener's own microphone buffer
\* (an injector of the listener's node included), loudness / distance <=
\* threshold, with the distance at least EPSILON, means the buffer adds
\* nothing to the block and is not counted as a mix; a buffer strictly
\* above the threshold is mixed.  The listener's own microphone buffer, when
\* looped back, is mixed whatever its loudness.
C5_GateOnOtherSources ==
    [][/\ GateDecides(Buffers \ {AvatarBufferOf(listener)})
       /\ (ConsidersStep(AvatarBufferOf(listener))
              /\ IsEligible(AvatarBufferOf(listener), listener))
              => PacketSamples(clientSamples') =
                     SaturatedBlock(clientSamples,
                                    FrameSamplesInterleaved(bufs[AvatarBufferOf(listener)]))]_vars

\* C5 witness: B's microphone, whose loudness over its distance of 1 equals
\* the threshold exactly, has just been looked at for listener A
C5_Witness ==
    /\ pc = "mix"
    /\ listener = "A"
    /\ considered = "micB"
    /\ IsEligible("micB", "A")
    /\ F32Eq(AudibilityOf("micB", "A"), minAudibilityThreshold)
    /\ \E i \in 0..(NETWORK_BUFFER_LENGTH_SAMPLES_PER_CHANNEL - 1) :
           NextOutputSample(bufs["micB"], i) # 0

\* ------------------------------------------------------------------------
\* properties of the frame loop with clients (Spec)
\* ------------------------------------------------------------------------


\* the listeners the frame has to serve
ListenersOfFrame == {n \in Nodes : InHash(n) /\ IsListener(n)}

\* C6: in every frame each buffer of a node with client data gets one
\* check before any listener is mixed, no buffer moves on while listeners
\* are being mixed, and once every listener has been mixed and sent each
\* checked buffer moves on exactly once, by one frame if it was offered to
\* the mix, whether zero, one or two listeners consumed it.
C6_CheckMixAdvance ==
    /\ pc = "mix" =>
           \A b \in Buffers :
               /\ checks[b] = IF nodes[Owner(b)].linked /\ bufs[b].exists THEN 1 ELSE 0
               /\ advances[b] = 0
               /\ frameStart[b] >= 0 => bufs[b].nextOutput = frameStart[b]
               /\ bufs[b].willBeAdded <=> frameStart[b] >= 0
    /\ pc = "mix" => mixedListeners \subseteq ListenersOfFrame
    /\ pc = "events" =>
           \A b \in Buffers :
               /\ advances[b] = checks[b]
               /\ frameStart[b] >= 0 =>
                      bufs[b].nextOutput = (frameStart[b] + 1) % RING_BUFFER_LENGTH_FRAMES
               /\ ~bufs[b].willBeAdded
    /\ (pc = "mix" /\ listener = "none" /\ todoNodes = <<>>)
           => mixedListeners = ListenersOfFrame

\* C6 witness: the frame is over; A's injector was consumed by both
\* listeners, B's microphone by one, and all three buffers moved on once
C6_Witness ==
    /\ pc = "events"
    /\ mixedListeners = {"A", "B"}
    /\ bufs["injA"].loopback
    /\ ~bufs["micA"].loopback
    /\ \A b \in Buffers : frameStart[b] >= 0 /\ advances[b] = 1 /\ checks[b] = 1

\* ------------------------------------------------------------------------
\* properties of the throttle (SpecSched)
\* ------------------------------------------------------------------------

\* a step that begins a frame: lines 532-602
BeginsFrame == pc = "top" /\ pc' = "mix"

\* max(0, old - 0.02) in single precision
BackedOff(old) ==
    IF F32Lt(F32Sub(old, RATIO_BACK_OFF), F32Zero) THEN F32Zero
    ELSE F32Sub(old, RATIO_BACK_OFF)

\* C7: when a frame begins with the wait of 100 frames over and the
\* updated trailing sleep ratio <= 0.10, the throttling ratio becomes
\* old + 0.5 * (1 - old); otherwise, with the wait over, the trailing sleep
\* ratio >= 0.20 and the ratio > 0, it becomes max(0, old - 0.02); in every
\* other case the ratio and the audibility threshold stay as they were.
C7_ThrottleTransition ==
    [][BeginsFrame =>
          IF framesSinceCutoffEvent >= TRAILING_AVERAGE_FRAMES
                 /\ F32Le(trailingSleepRatio', STRUGGLE_TRIGGER_SLEEP_PERCENTAGE_THRESHOLD)
          THEN performanceThrottlingRatio' =
                   F32Add(performanceThrottlingRatio,
                          F32Mul(F32Half, F32Sub(F32One, performanceThrottlingRatio)))
          ELSE IF framesSinceCutoffEvent >= TRAILING_AVERAGE_FRAMES
                      /\ F32Le(BACK_OFF_TRIGGER_SLEEP_PERCENTAGE_THRESHOLD, trailingSleepRatio')
                      /\ F32Lt(F32Zero, performanceThrottlingRatio)
          THEN performanceThrottlingRatio' = BackedOff(performanceThrottlingRatio)
          ELSE /\ performanceThrottlingRatio' = performanceThrottlingRatio
               /\ minAudibilityThreshold' = minAudibilityThreshold]_vars

\* C7 witness: a frame has just lowered the ratio, after an earlier raise,
\* from below 0.02 to 0, the sleep ratio being at least 0.20
C7_Witness ==
    /\ pc = "mix"
    /\ lastBranch = "lower"
    /\ lastCutoffFrame = nextFrame
    /\ F32IsZero(performanceThrottlingRatio)
    /\ F32Le(BACK_OFF_TRIGGER_SLEEP_PERCENTAGE_THRESHOLD, trailingSleepRatio)

\* C8: the frame in which the ratio changes lies more than 100 frames
\* after the frame of the throttle's previous adjustment, so the ratio is
\* constant for at least the 100 frames that follow a change; and the first
\* frame after startup finds the wait already over.
C8_Debounce ==
    /\ [](nextFrame = 0 /\ pc = "top"
              => framesSinceCutoffEvent >= TRAILING_AVERAGE_FRAMES)
    /\ [][performanceThrottlingRatio' # performanceThrottlingRatio =>
              (lastCutoffFrame = -1
                   \/ nextFrame - lastCutoffFrame > TRAILING_AVERAGE_FRAMES)]_vars

\* C8 witness: the second raise, to 0.75, has just happened, exactly 101
\* frames after the last frame in which the sleep ratio was still high
C8_Witness ==
    /\ pc = "mix"
    /\ lastBranch = "raise"
    /\ lastCutoffFrame = nextFrame
    /\ F32Eq(performanceThrottlingRatio, F32Div(F32FromInt(3), F32FromInt(4)))

\* C9: in every state the audibility threshold is
\* LOUDNESS_TO_DISTANCE_RATIO / (2 * (1 - ratio)) for the current ratio,
\* every frame that raises the throttle leaves the threshold strictly
\* higher and every frame that lowers it strictly lower.
C9_ThresholdFollowsRatio ==
    [][/\ F32Eq(minAudibilityThreshold',
                F32Div(LOUDNESS_TO_DISTANCE_RATIO,
                       F32Mul(F32Two, F32Sub(F32One, performanceThrottlingRatio'))))
       /\ (BeginsFrame /\ lastBranch' = "raise")
              => F32Lt(minAudibilityThreshold, minAudibilityThreshold')
       /\ (BeginsFrame /\ lastBranch' = "lower")
              => F32Lt(minAudibilityThreshold', minAudibilityThreshold)]_vars

\* C10: the throttling ratio is at least 0 and below 1 in every state, so
\* 2 * (1 - ratio) is never 0.
C10_RatioInUnitInterval ==
    /\ F32Le(F32Zero, performanceThrottlingRatio)
    /\ F32Lt(performanceThrottlingRatio, F32One)
    /\ ~F32IsZero(F32Mul(F32Two, F32Sub(F32One, performanceThrottlingRatio)))

\* every frame so far took longer than BUFFER_SEND_INTERVAL_USECS, so the
\* loop never slept and every frame after the first recorded usecToSleep 0
OverloadedSinceStart ==
    /\ frameCostUsecs = HeavyCostUsecs
    /\ HeavyCostUsecs > BUFFER_SEND_INTERVAL_USECS
    /\ elapsedUsecs = (nextFrame + (IF pc = "events" THEN 1 ELSE 0)) * HeavyCostUsecs

\* the threshold the constructor sets, line 81
InitialAudibilityThreshold == F32Div(LOUDNESS_TO_DISTANCE_RATIO, F32Two)

\* C11 as stated: a mixer overloaded from its first frame has a throttling
\* ratio above 0 and an audibility threshold above its initial value once
\* 100 frames have run.
C11_ThrottledAfter100Frames ==
    (OverloadedSinceStart /\ nextFrame >= TRAILING_AVERAGE_FRAMES)
        => /\ F32Lt(F32Zero, performanceThrottlingRatio)
           /\ F32Lt(InitialAudibilityThreshold, minAudibilityThreshold)

\* C11: a mixer overloaded from its first frame keeps the ratio 0 and the
\* initial threshold through frames 0..229, the trailing sleep ratio
\* 0.99^n being above 0.10 until n = 230; frame 230 raises the ratio, and
\* from then on the ratio is above 0 and the threshold above its initial
\* value.
C11_ThrottledAfter230Frames ==
    OverloadedSinceStart =>
        IF nextFrame < 230 \/ (nextFrame = 230 /\ pc = "top")
        THEN /\ F32IsZero(performanceThrottlingRatio)
             /\ F32Eq(minAudibilityThreshold, InitialAudibilityThreshold)
             /\ (pc = "mix" /\ nextFrame > 0) => usecToSleep = 0
        ELSE /\ F32Lt(F32Zero, performanceThrottlingRatio)
             /\ F32Lt(InitialAudibilityThreshold, minAudibilityThreshold)

\* C11 witness: frame 230 of a mixer overloaded from the start has just
\* raised the ratio to 0.5
C11_Witness ==
    /\ OverloadedSinceStart
    /\ pc = "mix"
    /\ nextFrame = 230
    /\ lastBranch = "raise"
    /\ F32Eq(performanceThrottlingRatio, F32Half)
    /\ F32Lt(InitialAudibilityThreshold, minAudibilityThreshold)

\* ------------------------------------------------------------------------
\* properties of the packets (SpecSeq)
\* ------------------------------------------------------------------------

\* the listener loop of the frame has visited every node
ListenerLoopDone == pc = "mix" /\ listener = "none" /\ todoNodes = <<>>

\* C12: in every frame each eligible listener is sent one mixed-audio
\* packet, none is sent to any other node, the packet carries the 480
\* samples (960 bytes) of the block mixed for that listener, and the
\* sequence number it carries is the count of the packets sent to the
\* listener before it, modulo 2^16: 0 for the first, one more for each
\* packet, unchanged in frames without a packet.
C12_OnePacketPerListener ==
    /\ \A n \in Nodes :
           /\ nodes[n].sequence = packets[n].total % 65536
           /\ packets[n].frame = IF n \in mixedListeners THEN 1 ELSE 0
    /\ ListenerLoopDone => mixedListeners = ListenersOfFrame
    /\ lastPacket # <<>> =>
           /\ lastPacket.sequence = (packets[lastPacket.to].total - 1) % 65536
           /\ DOMAIN lastPacket.samples = 0..(NETWORK_BUFFER_LENGTH_SAMPLES_STEREO - 1)
           /\ (pc = "mix" /\ listener = "none" /\ lastPacket.to \in mixedListeners)
                  => lastPacket.samples = PacketSamples(clientSamples)

\* C12 witness: the 65537th packet for A has gone out, with sequence
\* number 0 again, while B was sent its own packet in every frame too
C12_Witness ==
    /\ packets["A"].total = 65537
    /\ lastPacket # <<>>
    /\ lastPacket.to = "A"
    /\ lastPacket.sequence = 0
    /\ packets["B"].total >= 65536

\* ------------------------------------------------------------------------
\* the end of the loop (SpecLive)
\* ------------------------------------------------------------------------

\* a frame that was begun has been carried through its last phase
FrameComplete ==
    /\ listener = "none"
    /\ todoNodes = <<>>
    /\ todoBuffers = <<>>
    /\ \A b \in Buffers : advances[b] = checks[b]
    /\ \A n \in mixedListeners : packets[n].frame = 1

\* C13: once _isFinished is set the loop exits. No frame begins with the
\* flag set; with the flag set after processEvents the loop is left with no
\* sleep and no further frame; the loop is left only at its top or after
\* processEvents, where every buffer checked in the frame has been pushed
\* and every listener mixed has its packet, and the mix phase of a frame is
\* left only to that point; the packet buffer is released exactly when the
\* loop has been left.
C13_FinishedExits ==
    /\ [][BeginsFrame => ~isFinished]_vars
    /\ [][(pc = "events" /\ isFinished /\ pc' # pc)
              => /\ pc' = "done"
                 /\ nextFrame' = nextFrame
                 /\ elapsedUsecs' = elapsedUsecs
                 /\ usecToSleep' = usecToSleep]_vars
    /\ [][(pc # "done" /\ pc' = "done")
              => /\ isFinished
                 /\ pc = "top" \/ (pc = "events" /\ FrameComplete)
                 /\ UNCHANGED <<bufs, nodes, packets, lastPacket, clientSamples>>]_vars
    /\ [](pc = "events" => FrameComplete)
    /\ [](clientMixBufferAllocated <=> pc # "done")
    /\ [](pc = "done" => isFinished)
    /\ [][(pc = "mix" /\ pc' # "mix") => (pc' = "events" /\ FrameComplete')]_vars
    /\ isFinished ~> (pc = "done")

\* C13 witness: the flag was set in the processEvents call of a frame in
\* which a listener was mixed, and the loop has been left after that frame
C13_Witness ==
    /\ pc = "done"
    /\ isFinished
    /\ ~clientMixBufferAllocated
    /\ nextFrame >= 1
    /\ mixedListeners # {}
    /\ FrameComplete

\* ------------------------------------------------------------------------
\* the suspension points (Spec)
\* ------------------------------------------------------------------------

\* a datagram was read in the step
ReadsDatagram == datagramsRead' # datagramsRead

\* the step sleeps, or decides how long to
Sleeps == usecToSleep' # usecToSleep \/ (pc = "events" /\ pc' = "top")

\* C14: datagrams are read, and the thread sleeps, only after the push of
\* a frame's buffers (line 641-645) and before the next frame's checks:
\* neither happens in the step that checks the buffers, in any step of the
\* listener loop or in the step that pushes them, and through the listener
\* loop ring buffers, read positions and node data other than the sequence
\* number stay as the checks left them, so all listeners of a frame mix
\* the same frame of a source.
C14_IngestOnlyBetweenFrames ==
    /\ [][ReadsDatagram => (pc = "events" /\ pc' = "events")]_vars
    /\ [][Sleeps => (pc = "events" /\ pc' = "top")]_vars
    /\ [][(pc = "mix" /\ pc' = "mix")
              => /\ bufs' = bufs
                 /\ elapsedUsecs' = elapsedUsecs
                 /\ \A n \in Nodes : /\ nodes'[n].linked = nodes[n].linked
                                     /\ nodes'[n].activeSocket = nodes[n].activeSocket]_vars
    /\ [][(pc = "top" /\ pc' = "mix")
              => \A b \in Buffers :
                     /\ bufs'[b].slots = bufs[b].slots
                     /\ bufs'[b].nextOutput = bufs[b].nextOutput
                     /\ bufs'[b].framesAvailable = bufs[b].framesAvailable]_vars
    /\ [](pc = "mix" =>
              \A b \in Buffers :
                  frameStart[b] >= 0 => bufs[b].nextOutput = frameStart[b])

\* C14 witness: both nodes were mixed as listeners in a frame that had
\* datagrams read before it, and a third datagram was read after its push
C14_Witness ==
    /\ pc = "events"
    /\ mixedListeners = {"A", "B"}
    /\ datagramsRead = 3
    /\ \E b \in Buffers : bufs[b].framesAvailable >= 1

\* ------------------------------------------------------------------------
\* stereo sources and the listener's own buffers (SpecMix)
\* ------------------------------------------------------------------------

\* what the spatializer finds for buffer b and the listener lst
ParamsOf(b, lst) ==
    Spatialize(bufs[b], IsInjector(b), bufs[AvatarBufferOf(lst)],
               b = AvatarBufferOf(lst), minAudibilityThreshold, zones)

\* the samples behind the stereo frame, where only a delayed channel writes
DelayRoomUnchanged ==
    \A s \in NETWORK_BUFFER_LENGTH_SAMPLES_STEREO..(CLIENT_SAMPLES_LENGTH - 1) :
        clientSamples'[s] = clientSamples[s]

\* the frame of buf, interleaved, every sample times the coefficient
AttenuatedFrame(buf, coefficient) ==
    ScaledFrame(FrameSamplesInterleaved(buf), coefficient)

\* C15 as stated: a stereo source, and a source of the listener's own node
\* that is looped back, adds to every output sample exactly the source
\* sample (saturated), with no attenuation, delay or weak channel.
C15_StereoAndLoopbackUnattenuated ==
    [][\A b \in Buffers :
          (/\ ConsidersStep(b)
           /\ IsEligible(b, listener)
           /\ bufs[b].stereo \/ Owner(b) = listener)
              => /\ PacketSamples(clientSamples') =
                        SaturatedBlock(clientSamples, FrameSamplesInterleaved(bufs[b]))
                 /\ DelayRoomUnchanged]_vars

\* C15 as the code has it: only the listener's own microphone buffer,
\* looped back, is added sample for sample. A stereo buffer of another node
\* passes the audibility gate like any buffer and, when it passes, is added
\* without delay and without weak channel but with every sample multiplied
\* by the attenuation coefficient of its distance; a looped-back injector
\* of the listener's own node with radius 0 that passes the gate is
\* attenuated and delayed like a source of another node.
C15_OnlyOwnBufferUnattenuated ==
    [][\A b \in Buffers :
          (ConsidersStep(b) /\ IsEligible(b, listener)) =>
              /\ b = AvatarBufferOf(listener) =>
                     /\ PacketSamples(clientSamples') =
                            SaturatedBlock(clientSamples, FrameSamplesInterleaved(bufs[b]))
                     /\ DelayRoomUnchanged
              /\ (b # AvatarBufferOf(listener) /\ bufs[b].stereo) =>
                     IF ParamsOf(b, listener).bail THEN clientSamples' = clientSamples
                     ELSE /\ PacketSamples(clientSamples') =
                                 SaturatedBlock(clientSamples,
                                     AttenuatedFrame(bufs[b],
                                         ParamsOf(b, listener).attenuationCoefficient))
                          /\ DelayRoomUnchanged
              /\ (/\ IsInjector(b) /\ Owner(b) = listener /\ bufs[b].radius = 0
                  /\ ~ParamsOf(b, listener).bail) =>
                     /\ ParamsOf(b, listener).shouldAttenuate
                     /\ F32Lt(ParamsOf(b, listener).attenuationCoefficient, F32One)
                     /\ ParamsOf(b, listener).numSamplesDelay > 0
                     /\ ~DelayRoomUnchanged]_vars

\* C15 witness: listener A has had the stereo microphone of B added at 0.6
\* of its amplitude, after its own echoed microphone at full amplitude
C15_Witness ==
    /\ pc = "mix"
    /\ listener = "A"
    /\ considered = "micB"
    /\ bufs["micB"].stereo
    /\ bufs["micA"].loopback
    /\ nodeOrder = <<"A", "B">>
    /\ ~ParamsOf("micB", "A").bail
    /\ ScaleSample(1000, ParamsOf("micB", "A").attenuationCoefficient) = 600
    /\ F32Lt(ParamsOf("micB", "A").attenuationCoefficient, F32One)

\* ------------------------------------------------------------------------
\* the unattenuated zone (SpecMix)
\* ------------------------------------------------------------------------

\* buffer b is in the source zone and the listener lst in the listener zone
InUnattenuatedZone(b, lst) ==
    /\ zones # <<>>
    /\ b # AvatarBufferOf(lst)
    /\ bufs[b].inZone
    /\ ZoneContains(zones.listener, bufs[AvatarBufferOf(lst)].position)

\* C16: a source in the source zone, heard by a listener in the listener
\* zone, is first put to the audibility gate: at or below the threshold it
\* adds nothing and is not counted. Above it, it is added at full
\* amplitude whatever the distance: every sample unchanged, a mono sample
\* to the left and to the right output sample, and nothing behind the
\* stereo frame, where only a delayed channel writes.
C16_ZoneOverridesAfterGate ==
    [][\A b \in Buffers :
          (ConsidersStep(b) /\ IsEligible(b, listener) /\ InUnattenuatedZone(b, listener)) =>
              IF F32Le(AudibilityOf(b, listener), minAudibilityThreshold)
              THEN /\ clientSamples' = clientSamples
                   /\ sumMixes' = sumMixes
              ELSE /\ PacketSamples(clientSamples') =
                          SaturatedBlock(clientSamples, FrameSamplesInterleaved(bufs[b]))
                   /\ DelayRoomUnchanged
                   /\ sumMixes' = sumMixes + 1]_vars

\* C16 witness: B's microphone, 10000 away in the source zone and above
\* the gate, is the one source of listener A, whose block is the source's
\* full-scale frame
C16_Witness ==
    /\ pc = "mix"
    /\ listener = "A"
    /\ considered = "micB"
    /\ todoBuffers = <<>>
    /\ InUnattenuatedZone("micB", "A")
    /\ bufs["micB"].position - bufs["micA"].position = 10000
    /\ ~bufs["micB"].stereo
    /\ ~bufs["micA"].loopback
    /\ ~bufs["injA"].loopback
    /\ F32Lt(minAudibilityThreshold, AudibilityOf("micB", "A"))
    /\ \A s \in 0..(NETWORK_BUFFER_LENGTH_SAMPLES_STEREO - 1) :
           clientSamples[s] = MAX_SAMPLE_VALUE

\* ------------------------------------------------------------------------
\* the delayed channel (SpecMix)
\* ------------------------------------------------------------------------

\* buffer b is mixed for the listener lst as a mono point source off the
\* listener's axis: another buffer than the listener's, not stereo, past
\* the gate, outside the zone, the listener outside its sphere
IsPanned(b, lst) ==
    /\ IsEligible(b, lst)
    /\ b # AvatarBufferOf(lst)
    /\ ~bufs[b].stereo
    /\ ~InUnattenuatedZone(b, lst)
    /\ F32Lt(minAudibilityThreshold, AudibilityOf(b, lst))
    /\ bufs[b].position # bufs[AvatarBufferOf(lst)].position
    /\ IsInjector(b) =>
           (bufs[b].position - bufs[AvatarBufferOf(lst)].position)
               * (bufs[b].position - bufs[AvatarBufferOf(lst)].position)
           > bufs[b].radius * bufs[b].radius

\* the source is on the listener's right: with the identity orientation the
\* listener faces -z and +x is to its right
OnTheRight(b, lst) == bufs[b].position > bufs[AvatarBufferOf(lst)].position

\* the block after a mono source was added: channel delayedChannel (0 the
\* left, 1 the right) gets the delayed samples, delay sample pairs later
\* and after the preRoll samples, the other channel the correct ones
PannedBlock(old, correct, delayed, preRoll, delay, delayedChannel) ==
    [s \in DOMAIN old |->
        IF s % 2 # delayedChannel
        THEN IF s < NETWORK_BUFFER_LENGTH_SAMPLES_STEREO
             THEN SaturatedSum(old[s], correct[s \div 2])
             ELSE old[s]
        ELSE IF s \div 2 < delay THEN SaturatedSum(old[s], preRoll[s \div 2])
        ELSE IF (s \div 2) - delay < NETWORK_BUFFER_LENGTH_SAMPLES_PER_CHANNEL
            THEN SaturatedSum(old[s], delayed[(s \div 2) - delay])
        ELSE old[s]]

\* the block after buf was added with the coefficients of params and the
\* delayed channel given
PannedMix(old, buf, params, delayedChannel) ==
    PannedBlock(old,
                CorrectSamples(buf, params.attenuationCoefficient),
                ScaledFrame(CorrectSamples(buf, params.attenuationCoefficient),
                            params.weakChannelAmplitudeRatio),
                ScaledFrame([i \in 0..(params.numSamplesDelay - 1) |->
                                RingSample(buf, DelayNextOutputStart(buf, params.numSamplesDelay) + i)],
                            F32Mul(params.attenuationCoefficient,
                                   params.weakChannelAmplitudeRatio)),
                params.numSamplesDelay, delayedChannel)

\* C17 as stated: for a mono point source on the listener's right the right
\* output channel gets the delayed, weak copy and the left channel the
\* undelayed one.
C17_RightChannelDelayedOnRight ==
    [][\A b \in Buffers :
          (ConsidersStep(b) /\ IsPanned(b, listener) /\ OnTheRight(b, listener)) =>
              clientSamples' = PannedMix(clientSamples, bufs[b], ParamsOf(b, listener), 1)]_vars

\* C17 as the code has it: the bearing of a source on the listener's right
\* (+x, the listener facing -z) is -90 degrees, not > 0, and the delayed,
\* weak copy goes to the left output channel, the undelayed one to the
\* right; for a source on the left the bearing is > 0 and the right channel
\* is the delayed one. The delayed channel is the right one exactly when
\* the bearing is > 0.
C17_LeftChannelDelayedOnRight ==
    [][\A b \in Buffers :
          (ConsidersStep(b) /\ IsPanned(b, listener)) =>
              /\ ParamsOf(b, listener).bearingPositive <=> ~OnTheRight(b, listener)
              /\ ParamsOf(b, listener).numSamplesDelay = SAMPLE_PHASE_DELAY_AT_90
              /\ F32Eq(ParamsOf(b, listener).weakChannelAmplitudeRatio, F32Half)
              /\ clientSamples' =
                     PannedMix(clientSamples, bufs[b], ParamsOf(b, listener),
                               IF OnTheRight(b, listener) THEN 0 ELSE 1)]_vars

\* C17 witness: B's microphone, one unit to the right of listener A, is A's
\* one source; the last right sample holds the attenuated full-scale sample
\* and the last left sample of the frame half of it
C17_Witness ==
    /\ pc = "mix"
    /\ listener = "A"
    /\ considered = "micB"
    /\ todoBuffers = <<>>
    /\ IsPanned("micB", "A")
    /\ OnTheRight("micB", "A")
    /\ ~bufs["micA"].loopback
    /\ ~bufs["injA"].loopback
    /\ NextOutputSample(bufs["micB"], 0) = MAX_SAMPLE_VALUE
    /\ clientSamples[479] =
           ScaleSample(MAX_SAMPLE_VALUE, ParamsOf("micB", "A").attenuationCoefficient)
    /\ clientSamples[478] = ScaleSample(clientSamples[479], F32Half)
    /\ clientSamples[478] < clientSamples[479]

\* ------------------------------------------------------------------------
\* a source at the listener's position (SpecNear)
\* ------------------------------------------------------------------------

\* buffer b, not the listener's own, is within EPSILON of the listener lst,
\* outside any zone and past the gate
IsNearSource(b, lst) ==
    /\ IsEligible(b, lst)
    /\ b # AvatarBufferOf(lst)
    /\ ~InUnattenuatedZone(b, lst)
    /\ F32Le(DistanceBetween(bufs[b].position - bufs[AvatarBufferOf(lst)].position),
             EPSILON)
    /\ F32Lt(minAudibilityThreshold, AudibilityOf(b, lst))

\* every output sample of the stereo frame has gained the source's sample
GainsSourceSamples(old, new, frame) ==
    \A s \in 0..(NETWORK_BUFFER_LENGTH_SAMPLES_STEREO - 1) :
        new[s] = SaturatedSum(old[s], frame[s])

\* C18: a source within EPSILON of the listener, another buffer than the
\* listener's own and outside any zone, is mixed with an attenuation
\* coefficient of 1, whatever its kind: the output samples gain the
\* source's samples.
C18_NearSourceAtFullAmplitude ==
    [][\A b \in Buffers :
          (ConsidersStep(b) /\ IsNearSource(b, listener)) =>
              /\ ParamsOf(b, listener).attenuationCoefficient = F32One
              /\ GainsSourceSamples(clientSamples, clientSamples',
                                    FrameSamplesInterleaved(bufs[b]))]_vars

\* ------------------------------------------------------------------------
\* nodes that are not mixed for, and sends that fail (SpecMix)
\* ------------------------------------------------------------------------

\* node n is next in the listener loop
IsNextNode(n) ==
    /\ pc = "mix"
    /\ listener = "none"
    /\ todoNodes # <<>>
    /\ Head(todoNodes) = n

\* node n lacks something a listener needs
CannotListen(n) ==
    \/ nodes[n].type # "Agent"
    \/ ~nodes[n].activeSocket
    \/ ~nodes[n].linked
    \/ ~bufs[AvatarBufferOf(n)].exists

\* C19: a node of another type than Agent, without an active socket,
\* without client data or without a microphone buffer is passed over when
\* the listener loop comes to it: nothing is mixed or sent for it, its
\* sequence number and the listener count stay, and the loop goes on with
\* the next node, so that at its end every other node has its packet of the
\* frame and is counted. A packet that the transport loses is followed by
\* the same steps as one that arrives: the sequence number is incremented,
\* the listener counted and the loop goes on to the next node.
C19_SkipsStayLocal ==
    /\ [][\A n \in Nodes :
             (IsNextNode(n) /\ CannotListen(n)) =>
                 /\ pc' = "mix"
                 /\ listener' = "none"
                 /\ todoNodes' = Tail(todoNodes)
                 /\ UNCHANGED <<clientSamples, lastPacket, nodes, packets,
                                mixedListeners, sumListeners, sumMixes, bufs>>]_vars
    /\ [][\A n \in Nodes :
             (pc = "mix" /\ listener = n /\ todoBuffers = <<>>) =>
                 /\ pc' = "mix"
                 /\ listener' = "none"
                 /\ todoNodes' = Tail(todoNodes)
                 /\ nodes'[n].sequence = (nodes[n].sequence + 1) % 65536
                 /\ sumListeners' = sumListeners + 1
                 /\ lastPacket'.to = n
                 /\ lastPacket'.delivered = nodes[n].reachable]_vars
    /\ [](ListenerLoopDone =>
              /\ mixedListeners = {n \in Nodes : InHash(n) /\ ~CannotListen(n)}
              /\ sumListeners = Cardinality(mixedListeners)
              /\ \A n \in Nodes :
                     packets[n].frame = IF CannotListen(n) THEN 0 ELSE 1)
    /\ [][ListenerLoopDone => pc' = "events"]_vars

\* C19 witness: B, without an active socket, was passed over, A was mixed
\* after it and its packet lost, and the frame has come to its end
C19_Witness ==
    /\ pc = "events"
    /\ nodeOrder = <<"B", "A">>
    /\ ~nodes["B"].activeSocket
    /\ bufs["micB"].exists
    /\ nodes["B"].sequence = 7
    /\ packets["B"].frame = 0
    /\ mixedListeners = {"A"}
    /\ sumListeners = 1
    /\ lastPacket.to = "A"
    /\ ~lastPacket.delivered
    /\ nodes["A"].sequence = 0

\* ------------------------------------------------------------------------
\* the payload's zone option (SpecStart)
\* ------------------------------------------------------------------------

\* the zone option's argument is twelve entries that all convert to floats
ParsesIntoZoneFloats(p) ==
    /\ Len(p.zoneStringList) = ZoneFloats
    /\ \A i \in 1..ZoneFloats : p.zoneStringList[i].ok

\* C20: a payload whose zone option does not parse into twelve floats never
\* gets run() into the frame loop and never has a zone installed; with
\* twelve floats both zones are installed as the option gives them when
\* the frame loop begins; without the option both stay unset; and once
\* the frame loop has begun neither the zones nor the dynamic jitter
\* buffer flag change.
C20_MalformedZoneOptionAborts ==
    /\ []((payload.option /\ ~ParsesIntoZoneFloats(payload)) =>
              /\ pc \in {"start", "crashed"}
              /\ zones = <<>>)
    /\ []((payload.option /\ ParsesIntoZoneFloats(payload) /\ pc # "start") =>
              /\ pc # "crashed"
              /\ zones = ZonesOf(payload.zoneStringList, <<>>))
    /\ [](~payload.option => (zones = <<>> /\ pc # "crashed"))
    /\ [][pc # "start" => UNCHANGED <<zones, useDynamicJitterBuffers, payload>>]_vars

\* ------------------------------------------------------------------------
\* the order of the sources (SpecMix)
\* ------------------------------------------------------------------------

\* the block after the source loop of listener lst has gone through buffers
\* in their order, from samples
RECURSIVE MixInOrder(_, _, _)
MixInOrder(samples, buffers, lst) ==
    IF buffers = <<>> \/ DOMAIN samples = {} THEN samples
    ELSE MixInOrder(
             IF ShouldAddToMix(Owner(Head(buffers)), lst, bufs[Head(buffers)])
             THEN AddBufferToMix(samples, bufs[Head(buffers)], IsInjector(Head(buffers)),
                                 bufs[AvatarBufferOf(lst)],
                                 Head(buffers) = AvatarBufferOf(lst),
                                 minAudibilityThreshold, zones).samples
             ELSE samples,
             Tail(buffers), lst)

\* the source loop of the listener has visited every buffer
SourceLoopDone == pc = "mix" /\ listener # "none" /\ todoBuffers = <<>>

\* C21: when the source loop of a listener is done, the stereo frame that
\* goes out is the one that the same ring buffers, positions and threshold
\* give in either order in which the node hash can be visited, sums that
\* saturate included.
C21_SameBlockInEveryOrder ==
    SourceLoopDone =>
        \A order \in NodeOrders :
            PacketSamples(MixInOrder(ZeroedClientSamples(clientSamples),
                                     SourceBuffers(order), listener))
                = PacketSamples(clientSamples)

\* ------------------------------------------------------------------------
\* the mono loop at every bearing (SpecDelay)
\* ------------------------------------------------------------------------

\* the frames SpecDelay runs
MaxDelayFrames == 2

\* |sinf(bearing)| is a float of [0, 1]; these are SinRatioSteps + 1 of them
SinRatioSteps == 40

SinRatios ==
    {F32Div(F32FromInt(k), F32FromInt(SinRatioSteps)) : k \in 0..SinRatioSteps}

\* line 98-192 for the microphone of another avatar, no zones configured:
\* the source is on the side of the listener that its x says, at the
\* bearing whose |sinf| is sinRatio
PointSourceParams(src, lst, threshold, sinRatio) ==
    IF BelowAudibility(src.loudness, DistanceBetween(src.position - lst.position),
                       threshold)
    THEN [UnchangedParams EXCEPT !.bail = TRUE]
    ELSE AttenuatedParams(src.position - lst.position, F32Zero, F32One,
                          F32FromInt((src.position - lst.position)
                                         * (src.position - lst.position)),
                          F32Zero, sinRatio)

\* frame 1 of a run as in InitMix: node A is heard and does not listen, its
\* microphone is one unit left or right of B's avatar, the next output of
\* its ring is at any frame of the ring, behind the frame before it; B may
\* hear itself
InitDelay ==
    \E cursor \in 0..(RING_BUFFER_LENGTH_FRAMES - 1), positionA \in {0, 2},
       echoB \in BOOLEAN :
        /\ pc = "top"
        /\ isFinished = FALSE
        /\ clientMixBufferAllocated = TRUE
        /\ nextFrame = 1
        /\ elapsedUsecs = BUFFER_SEND_INTERVAL_USECS
        /\ usecToSleep = BUFFER_SEND_INTERVAL_USECS - LightCostUsecs
        /\ trailingSleepRatio = TrailingSleepRatio(F32One, BUFFER_SEND_INTERVAL_USECS)
        /\ framesSinceCutoffEvent = TRAILING_AVERAGE_FRAMES + 1
        /\ lastCutoffFrame = -1
        /\ lastBranch = "none"
        /\ deadline = ExactProduct(nextFrame)
        /\ performanceThrottlingRatio = F32Zero
        /\ minAudibilityThreshold = AudibilityThreshold(F32Zero)
        /\ frameCostUsecs = LightCostUsecs
        /\ loadChanges = 0
        /\ lastSendAudioStreamStatsTime = 0
        /\ NoFrameYet
        /\ nodeOrder \in NodeOrders
        /\ nodes = [n \in Nodes |->
                       [type |-> "Agent", linked |-> TRUE, activeSocket |-> n = "B",
                        reachable |-> TRUE, sequence |-> 7]]
        /\ packets = [n \in Nodes |-> [frame |-> 0, total |-> 7]]
        /\ bufs = [b \in Buffers |->
                      IF b = "micA"
                      THEN [NoBuffer EXCEPT
                               !.exists = TRUE, !.position = positionA,
                               !.loudness = F32One,
                               !.slots = [EmptyRing EXCEPT
                                             ![cursor] = "ramp",
                                             ![(cursor + RING_BUFFER_LENGTH_FRAMES - 1)
                                                   % RING_BUFFER_LENGTH_FRAMES] = "fall"],
                               !.nextOutput = cursor,
                               !.endOfLastWrite = (cursor + 1) % RING_BUFFER_LENGTH_FRAMES,
                               !.framesAvailable = 1]
                      ELSE IF b = "micB"
                      THEN [ReadyBuffer(1, "k1000", F32One) EXCEPT !.loopback = echoB]
                      ELSE NoBuffer]
        /\ zones = <<>>
        /\ payload = PlainPayload
        /\ useDynamicJitterBuffers = FALSE
        /\ clientSamples = JunkBlock

\* line 371-378: one buffer of the source loop, the other avatar at any
\* bearing
ConsiderAtBearing ==
    /\ pc = "mix"
    /\ listener # "none"
    /\ todoBuffers # <<>>
    /\ IF ShouldAddToMix(Owner(Head(todoBuffers)), listener, bufs[Head(todoBuffers)])
       THEN \E sinRatio \in IF Head(todoBuffers) = AvatarBufferOf(listener)
                            THEN {F32One} ELSE SinRatios :
                \E params \in {IF Head(todoBuffers) = AvatarBufferOf(listener)
                               THEN UnchangedParams
                               ELSE PointSourceParams(bufs[Head(todoBuffers)],
                                                      bufs[AvatarBufferOf(listener)],
                                                      minAudibilityThreshold, sinRatio)} :
                    /\ spatial' = params
                    /\ ConsiderWith(MixWithParams(clientSamples,
                                                  bufs[Head(todoBuffers)], params))
       ELSE UNCHANGED <<clientSamples, sumMixes>> /\ spatial' = <<>>
    /\ considered' = Head(todoBuffers)
    /\ todoBuffers' = Tail(todoBuffers)
    /\ UNCHANGED <<schedVars, clientVars, frameVars, todoNodes, listener,
                   lastPacket, mixedListeners, packets, sendAudioStreamStats,
                   lastSendAudioStreamStatsTime, numStatFrames, sumListeners>>

NextDelay ==
    \/ BeginFrame(MaxDelayFrames)
    \/ SkipListener
    \/ StartListener
    \/ ConsiderAtBearing
    \/ SendMix
    \/ PushBuffers
    \/ AfterEvents

SpecDelay == InitDelay /\ [][NextDelay]_vars

\* ------------------------------------------------------------------------
\* properties of the mono loop (SpecDelay)
\* ------------------------------------------------------------------------

\* a step of the source loop that mixes the mono buffer b spatialized
SpatializesStep(b) ==
    /\ ConsidersStep(b)
    /\ spatial' # <<>>
    /\ ~spatial'.bail
    /\ spatial'.shouldAttenuate
    /\ ~bufs[b].stereo

\* the sample that is n samples before the next output of the ring, in
\* circular order
SampleBefore(buf, n) ==
    RingSample(buf, ((buf.nextOutput * FrameSamples(buf))
                        + (RING_BUFFER_LENGTH_FRAMES * FrameSamples(buf)) - n)
                    % (RING_BUFFER_LENGTH_FRAMES * FrameSamples(buf)))

\* the one contribution to the sample s of the sent block: position s \div 2
\* of the leading ear or of the trailing one
ContributionAt(buf, params, s) ==
    IF s % 2 # (IF params.bearingPositive THEN 1 ELSE 0)
    THEN ScaleSample(NextOutputSample(buf, s \div 2), params.attenuationCoefficient)
    ELSE IF s \div 2 < params.numSamplesDelay
        THEN ScaleSample(SampleBefore(buf, params.numSamplesDelay - (s \div 2)),
                         F32Mul(params.attenuationCoefficient,
                                params.weakChannelAmplitudeRatio))
    ELSE ScaleSample(ScaleSample(NextOutputSample(buf, (s \div 2) - params.numSamplesDelay),
                                 params.attenuationCoefficient),
                     params.weakChannelAmplitudeRatio)

\* C22: a spatialized mono source adds to every sample of the sent block
\* exactly one contribution, by one saturating addition: at position i of
\* the leading ear next[i] times the weight, at position j of the trailing
\* ear the pre-roll sample j times weight and weak ratio when j is below the
\* delay and next[j - delay] times the weight times the weak ratio
\* otherwise, whatever the delay in 0..SAMPLE_PHASE_DELAY_AT_90 and
\* whatever the batches of four leave to the cases of 3, 2 and 1
C22_OneContributionEach ==
    [][\A b \in Buffers :
           SpatializesStep(b) =>
               /\ spatial'.numSamplesDelay \in 0..SAMPLE_PHASE_DELAY_AT_90
               /\ PacketSamples(clientSamples')
                      = [s \in 0..(NETWORK_BUFFER_LENGTH_SAMPLES_STEREO - 1) |->
                            AddsPi16(clientSamples[s],
                                     ContributionAt(bufs[b], spatial', s))]]_vars

\* the microphone of A was mixed with a delay of 7 samples, a batch of four
\* and three more, from the first frame of its ring into a block that holds
\* B's own microphone
C22_Witness ==
    /\ pc = "mix"
    /\ listener = "B"
    /\ considered = "micA"
    /\ spatial # <<>>
    /\ spatial.shouldAttenuate
    /\ spatial.numSamplesDelay = 7
    /\ bufs["micA"].nextOutput = 0
    /\ bufs["micB"].loopback
    /\ nodeOrder = <<"B", "A">>
    /\ clientSamples[0] # 1000
    /\ clientSamples[1] # 1000

\* the indices in the ring's array of the n samples before its next output,
\* in circular order
WindowBefore(buf, n) ==
    [i \in 0..(n - 1) |->
        ((buf.nextOutput * FrameSamples(buf))
            + (RING_BUFFER_LENGTH_FRAMES * FrameSamples(buf)) - n + i)
        % (RING_BUFFER_LENGTH_FRAMES * FrameSamples(buf))]

MonoPassIndexesInBytes(s, numSamplesDelay, delayedChannelOffset) ==
    {s + (IF delayedChannelOffset = 0 THEN 1 ELSE 0),
     s + (IF delayedChannelOffset = 0 THEN 1 ELSE 0) + 2,
     s + (numSamplesDelay * 4) + delayedChannelOffset,
     s + (numSamplesDelay * 4) + delayedChannelOffset + 2}

\* line 223-238: the indices of _clientSamples that the pass at s reads and
\* writes
MonoPassIndexes(s, numSamplesDelay, delayedChannelOffset) ==
    {s + (IF delayedChannelOffset = 0 THEN 1 ELSE 0),
     s + (IF delayedChannelOffset = 0 THEN 1 ELSE 0) + 2,
     s + (numSamplesDelay * 2) + delayedChannelOffset,
     s + (numSamplesDelay * 2) + delayedChannelOffset + 2}

\* line 215-216: the indices of the next output that the pass at s reads
MonoPassReads(s) == {s \div 2, (s \div 2) + 1}

\* line 212: the values of s
MonoPassStarts == {s \in 0..(NETWORK_BUFFER_LENGTH_SAMPLES_STEREO - 1) : s % 4 = 0}

\* a spatialized mono buffer was the last the source loop mixed
MixedSpatialized ==
    /\ pc = "mix"
    /\ considered # "none"
    /\ spatial # <<>>
    /\ ~spatial.bail
    /\ spatial.shouldAttenuate
    /\ ~bufs[considered].stereo

DistanceSquare(b, lst) ==
    (bufs[b].position - bufs[AvatarBufferOf(lst)].position)
        * (bufs[b].position - bufs[AvatarBufferOf(lst)].position)

\* C24: an injector with radius > 0 that is attenuated: for a listener
\* inside its sphere (d^2 <= radius^2) the coefficient is the injector's
\* attenuation ratio alone, without distance and off-axis coefficient, the
\* delay is 0, the weak channel's ratio 1, and both channels of the block
\* gain the sample times the attenuation ratio; for a listener outside the
\* coefficient is the attenuation ratio times the distance coefficient of
\* d^2 - radius^2, without an off-axis coefficient; the attenuation ratio
\* is a factor once in both
C24_SphereOfAnInjector ==
    [][\A b \in Buffers :
           (/\ ConsidersStep(b)
            /\ IsInjector(b)
            /\ bufs[b].radius > 0
            /\ spatial' # <<>>
            /\ ~spatial'.bail
            /\ spatial'.shouldAttenuate)
           => IF DistanceSquare(b, listener) <= bufs[b].radius * bufs[b].radius
              THEN /\ spatial'.attenuationCoefficient = bufs[b].attenuationRatio
                   /\ spatial'.numSamplesDelay = 0
                   /\ spatial'.weakChannelAmplitudeRatio = F32One
                   /\ PacketSamples(clientSamples')
                          = [s \in 0..(NETWORK_BUFFER_LENGTH_SAMPLES_STEREO - 1) |->
                                AddsPi16(clientSamples[s],
                                         ScaleSample(NextOutputSample(bufs[b], s \div 2),
                                                     bufs[b].attenuationRatio))]
              ELSE spatial'.attenuationCoefficient
                       = F32Mul(bufs[b].attenuationRatio,
                                DistanceCoefficient(
                                    F32FromInt(DistanceSquare(b, listener)
                                                   - (bufs[b].radius * bufs[b].radius))))]_vars

\* B, outside the sphere of A's injector, has it mixed with the distance
\* coefficient of d^2 - radius^2 = 3, after A, inside the sphere, was sent
\* a mix with the injector looped back
C24_Witness ==
    /\ pc = "mix"
    /\ listener = "B"
    /\ considered = "injA"
    /\ bufs["injA"].radius = 1
    /\ bufs["injA"].loopback
    /\ bufs["injA"].attenuationRatio = F32Half
    /\ packets["A"].frame = 1
    /\ "A" \in mixedListeners
    /\ spatial # <<>>
    /\ spatial.shouldAttenuate
    /\ spatial.attenuationCoefficient
           = F32Mul(F32Half, DistanceCoefficient(F32FromInt(3)))
    /\ F32Lt(spatial.attenuationCoefficient, F32Half)

\* ------------------------------------------------------------------------
\* the sleep of a late frame (SpecSched)
\* ------------------------------------------------------------------------

\* the frame before finished after its deadline
WasLate == pc = "top" /\ usecToSleep < 0

\* C25: a frame that finishes after its deadline is not slept after, the
\* pass after it has usecToSleep at 0, never below, and adds 0 to the
\* trailing average; _trailingSleepRatio, brought up to date in every frame
\* as PREVIOUS_FRAMES_RATIO times itself plus CURRENT_FRAME_RATIO times
\* usecToSleep / BUFFER_SEND_INTERVAL_USECS, is within [0, 1] in every state
C25_LateFrameCountsAsNoSleep ==
    /\ [](/\ F32Le(F32Zero, trailingSleepRatio)
          /\ F32Le(trailingSleepRatio, F32One)
          /\ (pc # "top" => usecToSleep >= 0))
    /\ [][/\ (pc = "events" /\ pc' = "top" /\ usecToSleep' <= 0)
              => elapsedUsecs' = elapsedUsecs
          /\ (pc = "top" /\ pc' = "mix")
              => /\ usecToSleep' = (IF usecToSleep < 0 THEN 0 ELSE usecToSleep)
                 /\ trailingSleepRatio'
                        = F32Add(F32Mul(PREVIOUS_FRAMES_RATIO, trailingSleepRatio),
                                 F32Div(F32Mul(F32FromInt(usecToSleep'),
                                               CURRENT_FRAME_RATIO),
                                        F32FromInt(BUFFER_SEND_INTERVAL_USECS)))
          /\ (WasLate /\ pc' = "mix")
              => /\ usecToSleep' = 0
                 /\ trailingSleepRatio'
                        = F32Mul(PREVIOUS_FRAMES_RATIO, trailingSleepRatio)]_vars

\* a pass began after a frame that had finished past its deadline: the
\* elapsed time is beyond the deadline, usecToSleep is 0 and the trailing
\* average has come down
C25_Witness ==
    /\ pc = "mix"
    /\ frameCostUsecs = HeavyCostUsecs
    /\ UsecToSleepAt(nextFrame, elapsedUsecs) < 0
    /\ usecToSleep = 0
    /\ F32Lt(trailingSleepRatio, F32One)
    /\ F32Lt(F32Zero, trailingSleepRatio)

\* ------------------------------------------------------------------------
\* the deadlines of a long run (SpecLong)
\* ------------------------------------------------------------------------

\* a is below b, both 64-bit
WideLess(a, b) == a[1] < b[1] \/ (a[1] = b[1] /\ a[2] < b[2])

\* the loop goes from the events of a frame to the top of the next
GoesToNextFrame == pc = "events" /\ pc' = "top"

\* C26: at every frame n the loop reaches, the product that line 655 forms
\* is n * BUFFER_SEND_INTERVAL_USECS and is an int, not beyond INT_MAX and
\* not wrapped; the products grow from frame to frame; and the sleep is
\* the product less the elapsed time, so that a late loop does not sleep
C26_DeadlineProductNeverOverflows ==
    /\ [](/\ deadline = ExactProduct(nextFrame)
          /\ deadline[1] < 32768)
    /\ [][GoesToNextFrame =>
              /\ WideLess(deadline, deadline')
              /\ usecToSleep' = UsecToSleepAt(nextFrame', elapsedUsecs)
              /\ (usecToSleep' <= 0 => elapsedUsecs' = elapsedUsecs)
              /\ (usecToSleep' > 0 => elapsedUsecs' = elapsedUsecs + usecToSleep')]_vars

\* ------------------------------------------------------------------------
\* the throttle under a lasting load (SpecThrottle)
\* ------------------------------------------------------------------------

\* a loop without clients whose frames all cost the same from here on:
\* heavy frames from the start of the loop, or light frames from frame 231
\* on, after heavy ones that had the ratio raised once, in frame 230, as
\* SpecSched has it
InitThrottle ==
    \E raised \in BOOLEAN :
        /\ pc = "top"
        /\ isFinished = FALSE
        /\ clientMixBufferAllocated = TRUE
        /\ nextFrame = IF raised THEN 231 ELSE 0
        /\ elapsedUsecs = IF raised THEN 231 * HeavyCostUsecs ELSE 0
        /\ usecToSleep = IF raised THEN -462000 ELSE BUFFER_SEND_INTERVAL_USECS
        /\ trailingSleepRatio = IF raised THEN <<1, 13301652, -27>> ELSE F32One
        /\ framesSinceCutoffEvent = IF raised THEN 0 ELSE TRAILING_AVERAGE_FRAMES
        /\ lastCutoffFrame = IF raised THEN 230 ELSE -1
        /\ lastBranch = IF raised THEN "raise" ELSE "none"
        /\ deadline = ExactProduct(nextFrame)
        /\ performanceThrottlingRatio = IF raised THEN RaisedRatio(F32Zero) ELSE F32Zero
        /\ minAudibilityThreshold =
               AudibilityThreshold(IF raised THEN RaisedRatio(F32Zero) ELSE F32Zero)
        /\ frameCostUsecs = IF raised THEN LightCostUsecs ELSE HeavyCostUsecs
        /\ loadChanges = IF raised THEN 2 ELSE 1
        /\ lastSendAudioStreamStatsTime = IF raised THEN 2016000 ELSE 0
        /\ todoNodes = <<>>
        /\ listener = "none"
        /\ todoBuffers = <<>>
        /\ lastPacket = <<>>
        /\ considered = "none"
        /\ spatial = <<>>
        /\ mixedListeners = {}
        /\ sendAudioStreamStats = FALSE
        /\ numStatFrames = nextFrame
        /\ sumListeners = 0
        /\ sumMixes = 0
        /\ datagramsRead = 0
        /\ checks = [b \in Buffers |-> 0]
        /\ advances = [b \in Buffers |-> 0]
        /\ frameStart = [b \in Buffers |-> -1]
        /\ nodeOrder = <<>>
        /\ nodes = [n \in Nodes |-> [type |-> "Agent", linked |-> FALSE,
                                     activeSocket |-> TRUE, reachable |-> TRUE,
                                     sequence |-> 0]]
        /\ packets = [n \in Nodes |-> [frame |-> 0, total |-> 0]]
        /\ bufs = [b \in Buffers |-> NoBuffer]
        /\ zones = <<>>
        /\ payload = PlainPayload
        /\ useDynamicJitterBuffers = FALSE
        /\ clientSamples = ZeroBlock

NextThrottle ==
    \/ BeginFrame(MaxThrottleFrames)
    \/ PushBuffers
    \/ AfterEvents

\* line 532: the test passes and the thread goes into the body of the loop
EntersLoopBody(maxFrames) ==
    /\ pc = "top"
    /\ LoopCondition(isFinished)
    /\ nextFrame < maxFrames
    /\ pc' = "mix"

\* the thread of run() is not held up anywhere: it leaves the test of
\* line 532, the buffers are pushed on, and processEvents returns
SpecThrottle ==
    /\ InitThrottle
    /\ [][NextThrottle]_vars
    /\ WF_pc(EntersLoopBody(MaxThrottleFrames))
    /\ WF_vars(PushBuffers)
    /\ WF_vars(AfterEvents)

\* a ratio and what n raises in a row make of it, one after the other
RECURSIVE RaisesFrom(_, _)
RaisesFrom(ratio, n) ==
    IF n = 0 THEN <<ratio>>
    ELSE <<ratio>> \o RaisesFrom(RaisedRatio(ratio), n - 1)

\* the ratio after each number of raises the run has room for
RaisedRatios == [k \in 0..MaxRaises |-> RaisesFrom(F32Zero, MaxRaises)[k + 1]]

\* every frame costs more than BUFFER_SEND_INTERVAL_USECS and there is room
\* in the run for the next raise
OverloadedWithRoom ==
    /\ frameCostUsecs = HeavyCostUsecs
    /\ nextFrame < MaxThrottleFrames - RaiseRoomFrames

\* a ratio and what n lowerings in a row make of it, one after the other
RECURSIVE LoweringsFrom(_, _)
LoweringsFrom(ratio, n) ==
    IF n = 0 THEN <<ratio>>
    ELSE <<ratio>> \o LoweringsFrom(LoweredRatio(ratio), n - 1)

\* the ratio after the first raise and each number of lowerings
LoweredRatios ==
    [k \in 0..MaxLowerings |-> LoweringsFrom(RaisedRatio(F32Zero), MaxLowerings)[k + 1]]

\* every frame costs a fifth of BUFFER_SEND_INTERVAL_USECS
Relieved == frameCostUsecs = LightCostUsecs

====
